---------------------------- MODULE Spec2Model ----------------------------
(***************************************************************************)
(* Partial rendering of an item tree (internal/core/item_rendering.rs):    *)
(* the DirtyRegion, the per-item rendering cache handles, the dirty-region *)
(* pass, the PartialRenderer decorator and PartialRenderingState.          *)
(*                                                                         *)
(* Coordinates are integers on a small grid; every ItemTransform is a      *)
(* translation (the items of the modelled tree have no children_transform, *)
(* so CachedItemBoundingBoxAndTransform::ItemWithTransform never arises).  *)
(***************************************************************************)
EXTENDS Integers, Sequences, FiniteSets, TLC

(***************************************************************************)
(* Bounds of the model.                                                    *)
(***************************************************************************)
\* the DirtyRegion algebra is explored on boxes with corners in
\* (0..GridW) x (0..GridH)
GridW == 2
GridH == 2

\* DirtyRegion::MAX_COUNT
MAX_COUNT == 3

(***************************************************************************)
(* euclid geometry, as used by the source: Box2D is [x0, y0, x1, y1]       *)
(* (min and max corner), Rect is [x, y, w, h] (origin and size).           *)
(***************************************************************************)
Min(a, b) == IF a <= b THEN a ELSE b
Max(a, b) == IF a >= b THEN a ELSE b

MkBox(x0, y0, x1, y1) == [x0 |-> x0, y0 |-> y0, x1 |-> x1, y1 |-> y1]
MkRect(x, y, w, h) == [x |-> x, y |-> y, w |-> w, h |-> h]

\* Default::default() of a Box2D / of a LogicalRect
ZeroBox == MkBox(0, 0, 0, 0)
ZeroRect == MkRect(0, 0, 0, 0)

\* Rect::to_box2d and Box2D::to_rect
to_box2d(r) == MkBox(r.x, r.y, r.x + r.w, r.y + r.h)
to_rect(b) == MkRect(b.x0, b.y0, b.x1 - b.x0, b.y1 - b.y0)

\* Box2D::is_empty: not (max.x > min.x and max.y > min.y)
box_is_empty(b) == ~(b.x1 > b.x0 /\ b.y1 > b.y0)
\* Rect::is_empty: the size has no area
rect_is_empty(r) == ~(r.w > 0 /\ r.h > 0)

\* Box2D::contains_box: an empty `other` is contained in anything
contains_box(a, other) ==
    \/ box_is_empty(other)
    \/ /\ a.x0 <= other.x0
       /\ other.x1 <= a.x1
       /\ a.y0 <= other.y0
       /\ other.y1 <= a.y1

\* Box2D::intersects
box_intersects(a, b) ==
    /\ a.x0 < b.x1
    /\ a.x1 > b.x0
    /\ a.y0 < b.y1
    /\ a.y1 > b.y0

\* Box2D::intersection_unchecked
box_intersection_unchecked(a, b) ==
    MkBox(Max(a.x0, b.x0), Max(a.y0, b.y0), Min(a.x1, b.x1), Min(a.y1, b.y1))

\* Option: None, or [some |-> v]
\* `let x = v; body`, written Let([x \in {v} |-> body]): v is evaluated once and
\* the body with x bound to its value
Let(f) == f[CHOOSE x \in DOMAIN f : TRUE]

None == [none |-> TRUE]
Some(v) == [some |-> v]
IsSome(o) == o # None

\* Box2D::intersection: None when the intersection is empty
box_intersection(a, b) ==
    LET x == box_intersection_unchecked(a, b)
    IN  IF box_is_empty(x) THEN None ELSE Some(x)

\* Box2D::union: an empty operand yields the other one
box_union(a, b) ==
    IF box_is_empty(b) THEN a
    ELSE IF box_is_empty(a) THEN b
    ELSE MkBox(Min(a.x0, b.x0), Min(a.y0, b.y0), Max(a.x1, b.x1), Max(a.y1, b.y1))

\* Box2D::area
box_area(b) == (b.x1 - b.x0) * (b.y1 - b.y0)

\* Rect::intersection, Rect::union, Rect::intersects, Rect::translate
rect_intersection(a, b) ==
    LET x == box_intersection_unchecked(to_box2d(a), to_box2d(b))
    IN  IF box_is_empty(x) THEN None ELSE Some(to_rect(x))
rect_union(a, b) == to_rect(box_union(to_box2d(a), to_box2d(b)))
rect_intersects(a, b) ==
    /\ a.x < b.x + b.w
    /\ b.x < a.x + a.w
    /\ a.y < b.y + b.h
    /\ b.y < a.y + a.h
rect_translate(r, v) == MkRect(r.x + v.x, r.y + v.y, r.w, r.h)

\* Option::unwrap_or_default on an Option<LogicalRect>
unwrap_or_default(o) == IF IsSome(o) THEN o.some ELSE ZeroRect

(***************************************************************************)
(* DirtyRegion: `rectangles` holds the first `count` boxes of the array    *)
(* (indices 0..count-1).  No method reads the array at or beyond `count`,  *)
(* so the model does not keep what the source leaves there.                *)
(***************************************************************************)
DirtyRegionDefault == [rectangles |-> [i \in 0..(-1) |-> ZeroBox], count |-> 0]

\* rectangles.swap(i, count - 1); count -= 1
swap_remove(s, i) ==
    [rectangles |-> [k \in 0..(s.count - 2) |->
                        IF k = i THEN s.rectangles[s.count - 1] ELSE s.rectangles[k]],
     count |-> s.count - 1]

\* rectangles[count] = b; count += 1
push(s, b) ==
    [rectangles |-> [k \in 0..s.count |-> IF k = s.count THEN b ELSE s.rectangles[k]],
     count |-> s.count + 1]

\* the while loop of add_box without the arm that removes a box contained in b
RECURSIVE add_box_scan_keeps_contained(_, _, _)
add_box_scan_keeps_contained(s, b, i) ==
    IF i < s.count
    THEN IF contains_box(s.rectangles[i], b)
         THEN [region |-> s, ret |-> TRUE]
         ELSE add_box_scan_keeps_contained(s, b, i + 1)
    ELSE [region |-> s, ret |-> FALSE]

\* the while loop of add_box without the early return on a stored box that contains b
RECURSIVE add_box_scan_misses_containing(_, _, _)
add_box_scan_misses_containing(s, b, i) ==
    IF i < s.count
    THEN IF contains_box(b, s.rectangles[i])
         THEN add_box_scan_misses_containing(swap_remove(s, i), b, i)
         ELSE add_box_scan_misses_containing(s, b, i + 1)
    ELSE [region |-> s, ret |-> FALSE]

\* the while loop of add_box: [region, ret], ret = TRUE on the early return
RECURSIVE add_box_scan(_, _, _)
add_box_scan(s, b, i) ==
    IF i < s.count
    THEN IF contains_box(s.rectangles[i], b)
         THEN [region |-> s, ret |-> TRUE]
         ELSE IF contains_box(b, s.rectangles[i])
              THEN add_box_scan(swap_remove(s, i), b, i)
              ELSE add_box_scan(s, b, i + 1)
    ELSE [region |-> s, ret |-> FALSE]

\* area growth of stored box i when unioned with b
merge_growth(s, b, i) == box_area(box_union(s.rectangles[i], b)) - box_area(s.rectangles[i])

\* min_by returns the first of several equally minimum elements
best_merge(s, b) ==
    CHOOSE i \in 0..(s.count - 1) :
        /\ \A j \in 0..(s.count - 1) : merge_growth(s, b, i) <= merge_growth(s, b, j)
        /\ \A j \in 0..(i - 1) : merge_growth(s, b, j) > merge_growth(s, b, i)

\* add_box without the test for an empty box
add_box_keeps_empty(self, b) ==
    LET scan == add_box_scan(self, b, 0)
        s == scan.region
    IN  IF scan.ret THEN s
        ELSE IF s.count < MAX_COUNT
             THEN push(s, b)
             ELSE LET m == best_merge(s, b)
                  IN  [s EXCEPT !.rectangles[m] = box_union(s.rectangles[m], b)]

\* add_box that drops the box when the region is full
add_box_drops_when_full(self, b) ==
    IF box_is_empty(b) THEN self
    ELSE LET scan == add_box_scan(self, b, 0)
             s == scan.region
         IN  IF scan.ret THEN s
             ELSE IF s.count < MAX_COUNT THEN push(s, b) ELSE s

add_box(self, b) ==
    IF box_is_empty(b) THEN self
    ELSE Let([scan \in {add_box_scan(self, b, 0)} |->
             IF scan.ret THEN scan.region
             ELSE IF scan.region.count < MAX_COUNT
                  THEN push(scan.region, b)
                  ELSE Let([m \in {best_merge(scan.region, b)} |->
                           [scan.region EXCEPT
                               !.rectangles[m] = box_union(scan.region.rectangles[m], b)]])])

add_rect(self, rect) == add_box(self, to_box2d(rect))

\* DirtyRegion::iter: the first `count` boxes, in order
iter(self) == [k \in 1..self.count |-> self.rectangles[k - 1]]

RECURSIVE union_fold(_, _, _)
union_fold(s, boxes, k) ==
    IF k > Len(boxes) THEN s ELSE union_fold(add_box(s, boxes[k]), boxes, k + 1)

union(self, other) == union_fold(self, iter(other), 1)

RECURSIVE bounding_fold(_, _, _)
bounding_fold(self, r, i) ==
    IF i < self.count THEN bounding_fold(self, box_union(r, self.rectangles[i]), i + 1) ELSE r

bounding_rect(self) ==
    IF self.count = 0 THEN ZeroRect
    ELSE to_rect(bounding_fold(self, self.rectangles[0], 1))

\* the while loop of intersection that keeps an intersecting box as it is
RECURSIVE intersection_scan_keeps_whole(_, _, _)
intersection_scan_keeps_whole(ret, other, i) ==
    IF i < ret.count
    THEN IF IsSome(box_intersection(ret.rectangles[i], other))
         THEN intersection_scan_keeps_whole(ret, other, i + 1)
         ELSE intersection_scan_keeps_whole(swap_remove(ret, i), other, i)
    ELSE ret

\* the while loop of intersection that steps over the box swapped into place i
RECURSIVE intersection_scan_skips_swapped(_, _, _)
intersection_scan_skips_swapped(ret, other, i) ==
    IF i < ret.count
    THEN LET x == box_intersection(ret.rectangles[i], other)
         IN  IF IsSome(x)
             THEN intersection_scan_skips_swapped([ret EXCEPT !.rectangles[i] = x.some],
                                                  other, i + 1)
             ELSE intersection_scan_skips_swapped(swap_remove(ret, i), other, i + 1)
    ELSE ret

RECURSIVE intersection_scan(_, _, _)
intersection_scan(ret, other, i) ==
    IF i < ret.count
    THEN LET x == box_intersection(ret.rectangles[i], other)
         IN  IF IsSome(x)
             THEN intersection_scan([ret EXCEPT !.rectangles[i] = x.some], other, i + 1)
             ELSE intersection_scan(swap_remove(ret, i), other, i)
    ELSE ret

intersection(self, other) == intersection_scan(self, to_box2d(other), 0)

draw_intersects(self, clipped_geom) ==
    \E i \in 0..(self.count - 1) : box_intersects(self.rectangles[i], to_box2d(clipped_geom))

\* impl From<LogicalRect> for DirtyRegion
DirtyRegionFrom(value) == add_rect(DirtyRegionDefault, value)


(***************************************************************************)
(* The item tree.  Item 0 is the root item of the component, item 1 its    *)
(* child and item 2 the child of item 1.  ItemRc::geometry() is the item's *)
(* rectangle relative to its parent; the items have no overflow, so        *)
(* ItemRc::bounding_rect returns the geometry.                             *)
(***************************************************************************)
Items == {0, 1, 2}
Kinds == {"Rectangle", "Clip", "Opacity"}

\* an item takes MaxPos + 1 horizontal positions (see GeometryChoices)
MaxPos == 2
\* logical_window_size
WinW == 4
WinH == 1
\* clear_cache is called while the generation is below MaxGen
MaxGen == 2

VARIABLES
    region,                 \* SpecRegion: the DirtyRegion under test
    rop,                    \* SpecRegion: the last call made on it
    children,               \* the children of each item, in declaration order
    kind,                   \* the type of each item
    geometry,               \* the geometry property of each item
    handle,                 \* the CachedRenderingData embedded in each item
    cache,                  \* PartialRenderingState::partial_cache
    force_dirty,            \* PartialRenderingState::force_dirty
    force_screen_refresh,   \* PartialRenderingState::force_screen_refresh
    pc,                     \* where the frame in progress is
    dirty_region,           \* PartialRenderer::dirty_region of the frame in progress
    last,                   \* the last operation observed, its argument and its result
    hist,                   \* history of requests and changes since the last frame steps
    item_cache,             \* SpecItemCache: the ItemCache under test
    properties,             \* SpecItemCache: the property each item's update_fn reads
    scale_factor,           \* SpecItemCache: Window::scale_factor()
    scale_hist              \* SpecItemCache: the scale factor since the last
                            \* clear_cache_if_scale_factor_changed

regionVars == <<region, rop>>
itemCacheVars == <<item_cache, properties, scale_factor, scale_hist>>
frameVars == <<children, kind, geometry, handle, cache, force_dirty, force_screen_refresh, pc,
               dirty_region, last, hist>>
\* what the actions of Spec and SpecCache, of SpecRegion and of SpecItemCache leave alone
notFrameVars == <<regionVars, itemCacheVars>>
notRegionVars == <<frameVars, itemCacheVars>>
notItemCacheVars == <<region, rop, children, kind, geometry, handle, cache, force_dirty,
                      force_screen_refresh, pc, dirty_region, hist>>
vars == <<region, rop, children, kind, geometry, handle, cache, force_dirty,
          force_screen_refresh, pc, dirty_region, last, hist,
          item_cache, properties, scale_factor, scale_hist>>

\* the children of an item, in declaration order (TraversalOrder::BackToFront)
Children(i) == children[i]
\* the item trees: item 1 below the root and item 2 below item 1, or items 1 and 2
\* both below the root
ChainTree == [i \in Items |-> IF i = 0 THEN <<1>> ELSE IF i = 1 THEN <<2>> ELSE <<>>]
FanTree == [i \in Items |-> IF i = 0 THEN <<1, 2>> ELSE <<>>]
\* visiting the children of index -1 visits the root item
RootChildren == <<0>>

WindowRect == MkRect(0, 0, WinW, WinH)

\* the values the geometry property of an item can be set to
GeometryChoices(i) ==
    IF i = 0 THEN {WindowRect}
    ELSE IF i = 1 THEN {MkRect(2 * k, 0, 2, WinH) : k \in 0..MaxPos}
    ELSE {MkRect(x, 0, 1, WinH) : x \in 0..MaxPos}

\* ItemRc::geometry, ItemRc::bounding_rect and ItemVTable::clips_children
item_geometry(i) == geometry[i]
item_bounding_rect(i, geom) == geom
clips_children(i) == kind[i] = "Clip"

(***************************************************************************)
(* ItemTransform restricted to translations: a vector [x, y].              *)
(***************************************************************************)
Vec(x, y) == [x |-> x, y |-> y]
translation(x, y) == Vec(x, y)
\* a.then(b): apply a, then b
then(a, b) == Vec(a.x + b.x, a.y + b.y)
outer_transformed_rect(t, r) == MkRect(r.x + t.x, r.y + t.y, r.w, r.h)
origin_to_vector(r) == Vec(r.x, r.y)

(***************************************************************************)
(* CachedItemBoundingBoxAndTransform                                       *)
(***************************************************************************)
RegularItem(bounding, offset) ==
    [tag |-> "RegularItem", bounding_rect |-> bounding, offset |-> offset]
ClipItem(geom) == [tag |-> "ClipItem", geometry |-> geom]

cached_bounding_rect(g) == IF g.tag = "ClipItem" THEN g.geometry ELSE g.bounding_rect

cached_transform(g) ==
    IF g.tag = "ClipItem" THEN translation(g.geometry.x, g.geometry.y)
    ELSE translation(g.offset.x, g.offset.y)

\* CachedItemBoundingBoxAndTransform::new
cached_new(i) ==
    LET geom == item_geometry(i)
    IN  IF clips_children(i) THEN ClipItem(geom)
        ELSE RegularItem(item_bounding_rect(i, geom), origin_to_vector(geom))

(***************************************************************************)
(* RenderingCache<T>: a slotted store and a generation.  An entry is a     *)
(* CachedGraphicsData: data, and a dependency tracker given by the         *)
(* properties it read (deps, of item `by`) and whether one changed since.  *)
(***************************************************************************)
Slots == 0..(Cardinality(Items) - 1)
Vacant == [vacant |-> TRUE]

RenderingCacheDefault == [slab |-> [s \in Slots |-> Vacant], generation |-> 1]

generation(c) == c.generation

cache_get_mut(c, index) ==
    IF index \in Slots /\ c.slab[index] # Vacant THEN Some(c.slab[index]) ELSE None

\* The slot insert uses is a vacant one; which one is the store's business.  The
\* model takes the first vacant slot of `pref`, an order of the slots that the
\* environment chooses.
SlotOrders == {p \in [1..Cardinality(Slots) -> Slots] :
                  \A a, b \in 1..Cardinality(Slots) : p[a] = p[b] => a = b}
LowestFirst == [k \in 1..Cardinality(Slots) |-> k - 1]

cache_next_slot(c, pref) ==
    pref[CHOOSE k \in 1..Cardinality(Slots) :
            /\ c.slab[pref[k]] = Vacant
            /\ \A j \in 1..(k - 1) : c.slab[pref[j]] # Vacant]

cache_insert(c, entry, pref) == [c EXCEPT !.slab[cache_next_slot(c, pref)] = entry]

cache_remove(c, index) == [c EXCEPT !.slab[index] = Vacant]

cache_clear(c) == [slab |-> [s \in Slots |-> Vacant], generation |-> c.generation + 1]

\* CachedGraphicsData::new(update_fn): the value under a fresh, clean tracker
CachedGraphicsDataNew(i, data, deps) ==
    [data |-> data, deps |-> deps, dirty |-> FALSE, by |-> i]

HandleDefault == [cache_index |-> 0, cache_generation |-> 0]

\* get_entry without the generation test
get_entry_any_generation(h, c) == cache_get_mut(c, h.cache_index)

\* get_entry that accepts a handle older than the cache
get_entry_older_generation(h, c) ==
    IF h.cache_generation > 0 /\ h.cache_generation <= generation(c)
    THEN cache_get_mut(c, h.cache_index)
    ELSE None

\* CachedRenderingData::get_entry
get_entry(h, c) ==
    LET index == h.cache_index
    IN  IF h.cache_generation = generation(c) THEN cache_get_mut(c, index) ELSE None

\* release that looks at the slot and not at the generation
release_by_index(h, c) ==
    IF h.cache_index \in Slots /\ c.slab[h.cache_index] # Vacant
    THEN [handle |-> [h EXCEPT !.cache_generation = 0],
          cache |-> cache_remove(c, h.cache_index),
          ret |-> Some(c.slab[h.cache_index].data),
          panic |-> FALSE]
    ELSE [handle |-> h, cache |-> c, ret |-> None, panic |-> FALSE]

\* release that leaves the handle's generation as it is
release_keeps_generation(h, c) ==
    IF h.cache_generation = generation(c)
    THEN [handle |-> h,
          cache |-> cache_remove(c, h.cache_index),
          ret |-> IF c.slab[h.cache_index] # Vacant
                  THEN Some(c.slab[h.cache_index].data) ELSE None,
          panic |-> c.slab[h.cache_index] = Vacant]
    ELSE [handle |-> h, cache |-> c, ret |-> None, panic |-> FALSE]

\* CachedRenderingData::release: the handle and cache after it, and what it returns
release(h, c) ==
    IF h.cache_generation = generation(c)
    THEN LET index == h.cache_index
         IN  [handle |-> [h EXCEPT !.cache_generation = 0],
              cache |-> cache_remove(c, index),
              ret |-> IF c.slab[index] # Vacant THEN Some(c.slab[index].data) ELSE None,
              panic |-> c.slab[index] = Vacant]
    ELSE [handle |-> h, cache |-> c, ret |-> None, panic |-> FALSE]

(***************************************************************************)
(* PartialRenderer::compute_dirty_regions                                  *)
(***************************************************************************)
mark_dirty_rect(dr, rect, transform, clip_rect) ==
    IF ~rect_is_empty(rect)
    THEN LET x == rect_intersection(outer_transformed_rect(transform, rect), clip_rect)
         IN  IF IsSome(x) THEN add_rect(dr, x.some) ELSE dr
    ELSE dr

\* ComputeDirtyRegionState::adjust_transforms_for_child
adjust_transforms_for_child(state, children_transform, old_children_transform) ==
    [state EXCEPT !.transform_to_screen = then(children_transform, state.transform_to_screen),
                  !.old_transform_to_screen =
                      then(old_children_transform, state.old_transform_to_screen)]

\* the dirty arm setting must_refresh_children for a Clip and not for an Opacity
visit_dirty_clip_only(dr, i, state, cached_geom) ==
    LET old_geom == cached_geom
        new_geom == cached_new(i)
        dr1 == mark_dirty_rect(dr, cached_bounding_rect(old_geom),
                               state.old_transform_to_screen, state.clipped)
        dr2 == mark_dirty_rect(dr1, cached_bounding_rect(new_geom),
                               state.transform_to_screen, state.clipped)
        s1 == adjust_transforms_for_child(state, cached_transform(new_geom),
                                          cached_transform(old_geom))
        s2 == IF kind[i] \in {"Clip"}
              THEN [s1 EXCEPT !.must_refresh_children = TRUE]
              ELSE s1
    IN  [dr |-> dr2, state |-> s2]

\* the dirty arm marking the new rectangle where the old transform puts it
visit_dirty_old_transform(dr, i, state, cached_geom) ==
    LET old_geom == cached_geom
        new_geom == cached_new(i)
        dr1 == mark_dirty_rect(dr, cached_bounding_rect(old_geom),
                               state.old_transform_to_screen, state.clipped)
        dr2 == mark_dirty_rect(dr1, cached_bounding_rect(new_geom),
                               state.old_transform_to_screen, state.clipped)
        s1 == adjust_transforms_for_child(state, cached_transform(new_geom),
                                          cached_transform(old_geom))
        s2 == IF kind[i] \in {"Clip", "Opacity"}
              THEN [s1 EXCEPT !.must_refresh_children = TRUE]
              ELSE s1
    IN  [dr |-> dr2, state |-> s2]

\* the dirty arm without the old rectangle
visit_dirty_new_only(dr, i, state, cached_geom) ==
    LET new_geom == cached_new(i)
        dr2 == mark_dirty_rect(dr, cached_bounding_rect(new_geom),
                               state.transform_to_screen, state.clipped)
        s1 == adjust_transforms_for_child(state, cached_transform(new_geom),
                                          cached_transform(cached_geom))
        s2 == IF kind[i] \in {"Clip", "Opacity"}
              THEN [s1 EXCEPT !.must_refresh_children = TRUE]
              ELSE s1
    IN  [dr |-> dr2, state |-> s2]

\* the visitor's arm for an entry whose tracker is dirty
visit_dirty(dr, i, state, cached_geom) ==
    LET old_geom == cached_geom
        new_geom == cached_new(i)
        dr1 == mark_dirty_rect(dr, cached_bounding_rect(old_geom),
                               state.old_transform_to_screen, state.clipped)
        dr2 == mark_dirty_rect(dr1, cached_bounding_rect(new_geom),
                               state.transform_to_screen, state.clipped)
        s1 == adjust_transforms_for_child(state, cached_transform(new_geom),
                                          cached_transform(old_geom))
        s2 == IF kind[i] \in {"Clip", "Opacity"}
              THEN [s1 EXCEPT !.must_refresh_children = TRUE]
              ELSE s1
    IN  [dr |-> dr2, state |-> s2]

\* the clean arm narrowing `clipped` by the Clip's geometry at its new place only
visit_clean_clips_new_only(dr, i, state, cached_geom) ==
    LET moved == \/ state.must_refresh_children
                 \/ state.transform_to_screen # state.old_transform_to_screen
        dr1 == IF moved
               THEN mark_dirty_rect(
                        mark_dirty_rect(dr, cached_bounding_rect(cached_geom),
                                        state.old_transform_to_screen, state.clipped),
                        cached_bounding_rect(cached_geom),
                        state.transform_to_screen, state.clipped)
               ELSE dr
        s1 == adjust_transforms_for_child(state, cached_transform(cached_geom),
                                          cached_transform(cached_geom))
        s2 == IF cached_geom.tag = "ClipItem"
              THEN [s1 EXCEPT !.clipped = unwrap_or_default(rect_intersection(
                        s1.clipped,
                        outer_transformed_rect(state.transform_to_screen,
                                               cached_geom.geometry)))]
              ELSE s1
    IN  [dr |-> dr1, state |-> s2]

\* the clean arm marking the cached rectangle where the new transform puts it only
visit_clean_new_transform_only(dr, i, state, cached_geom) ==
    LET moved == \/ state.must_refresh_children
                 \/ state.transform_to_screen # state.old_transform_to_screen
        dr1 == IF moved
               THEN mark_dirty_rect(dr, cached_bounding_rect(cached_geom),
                                    state.transform_to_screen, state.clipped)
               ELSE dr
        s1 == adjust_transforms_for_child(state, cached_transform(cached_geom),
                                          cached_transform(cached_geom))
        s2 == IF cached_geom.tag = "ClipItem"
              THEN [s1 EXCEPT !.clipped = unwrap_or_default(rect_intersection(
                        s1.clipped,
                        rect_union(
                            outer_transformed_rect(state.transform_to_screen,
                                                   cached_geom.geometry),
                            outer_transformed_rect(state.old_transform_to_screen,
                                                   cached_geom.geometry))))]
              ELSE s1
    IN  [dr |-> dr1, state |-> s2]

\* the clean arm marking the item's rectangle whether or not it moved
visit_clean_marks_always(dr, i, state, cached_geom) ==
    LET dr1 == mark_dirty_rect(
                   mark_dirty_rect(dr, cached_bounding_rect(cached_geom),
                                   state.old_transform_to_screen, state.clipped),
                   cached_bounding_rect(cached_geom),
                   state.transform_to_screen, state.clipped)
        s1 == adjust_transforms_for_child(state, cached_transform(cached_geom),
                                          cached_transform(cached_geom))
        s2 == IF cached_geom.tag = "ClipItem"
              THEN [s1 EXCEPT !.clipped = unwrap_or_default(rect_intersection(
                        s1.clipped,
                        rect_union(
                            outer_transformed_rect(state.transform_to_screen,
                                                   cached_geom.geometry),
                            outer_transformed_rect(state.old_transform_to_screen,
                                                   cached_geom.geometry))))]
              ELSE s1
    IN  [dr |-> dr1, state |-> s2]

\* the visitor's arm for an entry whose tracker is clean
visit_clean(dr, i, state, cached_geom) ==
    LET moved == \/ state.must_refresh_children
                 \/ state.transform_to_screen # state.old_transform_to_screen
        dr1 == IF moved
               THEN mark_dirty_rect(
                        mark_dirty_rect(dr, cached_bounding_rect(cached_geom),
                                        state.old_transform_to_screen, state.clipped),
                        cached_bounding_rect(cached_geom),
                        state.transform_to_screen, state.clipped)
               ELSE dr
        s1 == adjust_transforms_for_child(state, cached_transform(cached_geom),
                                          cached_transform(cached_geom))
        s2 == IF cached_geom.tag = "ClipItem"
              THEN [s1 EXCEPT !.clipped = unwrap_or_default(rect_intersection(
                        s1.clipped,
                        rect_union(
                            outer_transformed_rect(state.transform_to_screen,
                                                   cached_geom.geometry),
                            outer_transformed_rect(state.old_transform_to_screen,
                                                   cached_geom.geometry))))]
              ELSE s1
    IN  [dr |-> dr1, state |-> s2]

\* the arm for an item without a valid entry marking under the old transform as well
visit_absent_marks_old_too(dr, i, state) ==
    LET geom == cached_new(i)
        s1 == adjust_transforms_for_child(state, cached_transform(geom),
                                          cached_transform(geom))
        s2 == IF geom.tag = "ClipItem"
              THEN [s1 EXCEPT !.clipped = unwrap_or_default(rect_intersection(
                        s1.clipped,
                        outer_transformed_rect(state.transform_to_screen, geom.geometry)))]
              ELSE s1
        dr1 == mark_dirty_rect(
                   mark_dirty_rect(dr, cached_bounding_rect(geom),
                                   state.old_transform_to_screen, state.clipped),
                   cached_bounding_rect(geom), state.transform_to_screen, state.clipped)
    IN  [dr |-> dr1, state |-> s2]

\* the visitor's arm for an item without a valid entry
visit_absent(dr, i, state) ==
    LET geom == cached_new(i)
        s1 == adjust_transforms_for_child(state, cached_transform(geom),
                                          cached_transform(geom))
        s2 == IF geom.tag = "ClipItem"
              THEN [s1 EXCEPT !.clipped = unwrap_or_default(rect_intersection(
                        s1.clipped,
                        outer_transformed_rect(state.transform_to_screen, geom.geometry)))]
              ELSE s1
        dr1 == mark_dirty_rect(dr, cached_bounding_rect(geom),
                               state.transform_to_screen, state.clipped)
    IN  [dr |-> dr1, state |-> s2]

\* the closure compute_dirty_regions hands to visit_items
visit_item(dr, i, state) ==
    LET e == get_entry(handle[i], cache)
    IN  IF IsSome(e)
        THEN IF e.some.dirty
             THEN visit_dirty(dr, i, state, e.some.data)
             ELSE visit_clean(dr, i, state, e.some.data)
        ELSE visit_absent(dr, i, state)

\* what one call of the visitor did: the item, the state it was visited with, the
\* dirty region before and after, and the state handed to the item's children
Visit(i, state, before, v) ==
    [item |-> i, state |-> state, before |-> before, after |-> v.dr, new_state |-> v.state]

\* item_tree::visit_items: depth first, the visitor's state handed to the children;
\* acc is the dirty region so far and the visits made so far
RECURSIVE visit_items(_, _, _, _)
visit_items(acc, kids, k, state) ==
    IF k > Len(kids) THEN acc
    ELSE Let([v \in {visit_item(acc.dr, kids[k], state)} |->
             visit_items(visit_items([dr |-> v.dr,
                                      visits |-> Append(acc.visits,
                                                        Visit(kids[k], state, acc.dr, v))],
                                     Children(kids[k]), 1, v.state),
                         kids, k + 1, state)])

initial_state(origin, size) ==
    [transform_to_screen |-> translation(origin.x, origin.y),
     old_transform_to_screen |-> translation(origin.x, origin.y),
     clipped |-> MkRect(0, 0, size.w, size.h),
     must_refresh_children |-> FALSE]

\* compute_dirty_regions: the dirty region after the pass, and the visits it made
compute_dirty_regions_visits(dr, origin, size) ==
    visit_items([dr |-> dr, visits |-> <<>>], RootChildren, 1, initial_state(origin, size))

compute_dirty_regions(dr, origin, size) == compute_dirty_regions_visits(dr, origin, size).dr

(***************************************************************************)
(* The wrapped renderer (actual_renderer): a clip rectangle and a          *)
(* translation, both in the current coordinate system, and the stack of    *)
(* saved states.  A render pass works on a record w that also carries the  *)
(* cache and the items' handles, which filter_item and do_rendering        *)
(* update, the order in which the cache hands out its vacant slots, and    *)
(* the items the pass visited and drew.  `filtered` records each call of   *)
(* filter_item (the item, what it found and left for the item, the clip    *)
(* and translation it read, and the draw flag it returned), `results` the  *)
(* rendering result render_item_children had for each item.                *)
(***************************************************************************)
\* the calls the wrapped renderer receives, in order: the operation and, for
\* filter_item and the rendering operations, the item
Event(ev, i) == [ev |-> ev, item |-> i]

save_state(w) ==
    [w EXCEPT !.stack = Append(w.stack, [clip |-> w.clip, tr |-> w.tr]),
              !.events = Append(w.events, Event("save_state", -1))]

restore_state(w) ==
    [w EXCEPT !.clip = w.stack[Len(w.stack)].clip,
              !.tr = w.stack[Len(w.stack)].tr,
              !.stack = SubSeq(w.stack, 1, Len(w.stack) - 1),
              !.events = Append(w.events, Event("restore_state", -1))]

translate(w, distance) ==
    [w EXCEPT !.tr = Vec(w.tr.x + distance.x, w.tr.y + distance.y),
              !.clip = rect_translate(w.clip, Vec(0 - distance.x, 0 - distance.y)),
              !.events = Append(w.events, Event("translate", -1))]

get_current_clip(w) == w.clip

\* combine_clip: the renderer after it, and whether the clip region covers an area
combine_clip(w, rect) ==
    Let([x \in {rect_intersection(w.clip, rect)} |->
        [w |-> [w EXCEPT !.clip = unwrap_or_default(x)], valid |-> IsSome(x)]])

\* ItemRenderer::visit_clip, the default implementation the wrapped renderer uses
actual_visit_clip(w, i, size) ==
    IF clips_children(i)
    THEN Let([c \in {combine_clip(w, MkRect(0, 0, item_geometry(i).w,
                                            item_geometry(i).h))} |->
                 [w |-> c.w,
                  result |-> IF c.valid THEN "ContinueRenderingChildren"
                             ELSE "ContinueRenderingWithoutChildren"]])
    ELSE [w |-> w, result |-> "ContinueRenderingChildren"]

\* ItemRenderer::visit_opacity, the default implementation
actual_visit_opacity(w, i, size) == [w |-> w, result |-> "ContinueRenderingChildren"]

\* the wrapped renderer's draw_rectangle
actual_draw_rectangle(w, i, size) == [w |-> w, result |-> "ContinueRenderingChildren"]

\* PartialRenderer::do_rendering, after render_fn ran
do_rendering(w, i) ==
    Let([e \in {get_entry(w.handle[i], w.cache)} |->
        IF IsSome(e)
        THEN [w EXCEPT !.cache.slab[w.handle[i].cache_index] =
                  [e.some EXCEPT !.deps = {"geometry", "visual"}, !.dirty = FALSE, !.by = i]]
        ELSE [w EXCEPT !.cache = cache_insert(w.cache,
                                     CachedGraphicsDataNew(i, cached_new(i),
                                                           {"geometry", "visual"}),
                                     w.pref),
                       !.handle[i] = [cache_index |-> cache_next_slot(w.cache, w.pref),
                                      cache_generation |-> generation(w.cache)]]])

\* forward_rendering_call / forward_rendering_call2: the wrapped renderer's operation
\* runs inside do_rendering's render_fn
forward_rendering_call(w, i, size) ==
    Let([r \in {IF kind[i] = "Clip" THEN actual_visit_clip(w, i, size)
        ELSE IF kind[i] = "Opacity" THEN actual_visit_opacity(w, i, size)
        ELSE actual_draw_rectangle(w, i, size)} |->
            [w |-> [do_rendering(r.w, i) EXCEPT !.drawn = Append(w.drawn, i),
                        !.events = Append(r.w.events, Event("render", i))],
             result |-> r.result]])

\* filter_item testing the clipped geometry without the translation
filter_item_untranslated(w, dr, i) ==
    Let([e \in {get_entry(w.handle[i], w.cache)} |->
    Let([w1 \in {IF IsSome(e)
        THEN IF e.some.dirty
             THEN [w EXCEPT !.cache.slab[w.handle[i].cache_index] =
                      [e.some EXCEPT !.data = cached_new(i), !.deps = {"geometry"},
                                     !.dirty = FALSE, !.by = i]]
             ELSE w
        ELSE [w EXCEPT !.cache = cache_insert(w.cache,
                                     CachedGraphicsDataNew(i, cached_new(i), {"geometry"}),
                                     w.pref),
                       !.handle[i] = [cache_index |-> cache_next_slot(w.cache, w.pref),
                                      cache_generation |-> generation(w.cache)]]} |->
    Let([item_bounds \in
             {cached_bounding_rect(get_entry(w1.handle[i], w1.cache).some.data)} |->
    Let([clipped_geom \in {rect_intersection(get_current_clip(w1), item_bounds)} |->
    Let([draw \in {/\ IsSome(clipped_geom)
                   /\ draw_intersects(dr, clipped_geom.some)} |->
        [w |-> [w1 EXCEPT !.visited = w1.visited \cup {i},
                          !.events = Append(w1.events, Event("filter_item", i)),
                          !.filtered = Append(w1.filtered,
                              [item |-> i, draw |-> draw,
                               clip |-> get_current_clip(w1), tr |-> w1.tr,
                               found |-> [handle |-> w.handle[i], entry |-> e],
                               left |-> [handle |-> w1.handle[i],
                                         entry |-> get_entry(w1.handle[i], w1.cache),
                                         generation |-> generation(w1.cache)]])],
         draw |-> draw,
         geometry |-> item_geometry(i)]])])])])])

\* filter_item whose new entry has a tracker that was never evaluated
filter_item_inserts_dirty(w, dr, i) ==
    Let([e \in {get_entry(w.handle[i], w.cache)} |->
    Let([w1 \in {IF IsSome(e)
        THEN IF e.some.dirty
             THEN [w EXCEPT !.cache.slab[w.handle[i].cache_index] =
                      [e.some EXCEPT !.data = cached_new(i), !.deps = {"geometry"},
                                     !.dirty = FALSE, !.by = i]]
             ELSE w
        ELSE [w EXCEPT !.cache = cache_insert(w.cache,
                                     [data |-> cached_new(i), deps |-> {}, dirty |-> TRUE,
                                      by |-> i],
                                     w.pref),
                       !.handle[i] = [cache_index |-> cache_next_slot(w.cache, w.pref),
                                      cache_generation |-> generation(w.cache)]]} |->
    Let([item_bounds \in
             {cached_bounding_rect(get_entry(w1.handle[i], w1.cache).some.data)} |->
    Let([clipped_geom \in {rect_intersection(get_current_clip(w1), item_bounds)} |->
    Let([draw \in {/\ IsSome(clipped_geom)
                   /\ draw_intersects(dr, rect_translate(clipped_geom.some, w1.tr))} |->
        [w |-> [w1 EXCEPT !.visited = w1.visited \cup {i},
                          !.events = Append(w1.events, Event("filter_item", i)),
                          !.filtered = Append(w1.filtered,
                              [item |-> i, draw |-> draw,
                               clip |-> get_current_clip(w1), tr |-> w1.tr,
                               found |-> [handle |-> w.handle[i], entry |-> e],
                               left |-> [handle |-> w1.handle[i],
                                         entry |-> get_entry(w1.handle[i], w1.cache),
                                         generation |-> generation(w1.cache)]])],
         draw |-> draw,
         geometry |-> item_geometry(i)]])])])])])

\* impl ItemRenderer for PartialRenderer: filter_item
filter_item(w, dr, i) ==
    Let([e \in {get_entry(w.handle[i], w.cache)} |->
    Let([w1 \in {IF IsSome(e)
        THEN IF e.some.dirty
             THEN [w EXCEPT !.cache.slab[w.handle[i].cache_index] =
                      [e.some EXCEPT !.data = cached_new(i), !.deps = {"geometry"},
                                     !.dirty = FALSE, !.by = i]]
             ELSE w
        ELSE [w EXCEPT !.cache = cache_insert(w.cache,
                                     CachedGraphicsDataNew(i, cached_new(i), {"geometry"}),
                                     w.pref),
                       !.handle[i] = [cache_index |-> cache_next_slot(w.cache, w.pref),
                                      cache_generation |-> generation(w.cache)]]} |->
    Let([item_bounds \in
             {cached_bounding_rect(get_entry(w1.handle[i], w1.cache).some.data)} |->
    Let([clipped_geom \in {rect_intersection(get_current_clip(w1), item_bounds)} |->
    Let([draw \in {/\ IsSome(clipped_geom)
                   /\ draw_intersects(dr, rect_translate(clipped_geom.some, w1.tr))} |->
        [w |-> [w1 EXCEPT !.visited = w1.visited \cup {i},
                          !.events = Append(w1.events, Event("filter_item", i)),
                          !.filtered = Append(w1.filtered,
                              [item |-> i, draw |-> draw,
                               clip |-> get_current_clip(w1), tr |-> w1.tr,
                               found |-> [handle |-> w.handle[i], entry |-> e],
                               left |-> [handle |-> w1.handle[i],
                                         entry |-> get_entry(w1.handle[i], w1.cache),
                                         generation |-> generation(w1.cache)]])],
         draw |-> draw,
         geometry |-> item_geometry(i)]])])])])])

\* render_item_children that renders only what the filter lets through
RECURSIVE render_item_children_drawn_only(_, _, _, _)
render_item_children_drawn_only(w, dr, kids, k) ==
    IF k > Len(kids) THEN w
    ELSE Let([f \in {filter_item(save_state(w), dr, kids[k])} |->
         Let([w2 \in {translate(f.w, origin_to_vector(f.geometry))} |->
         Let([r \in {IF f.draw
             THEN forward_rendering_call(w2, kids[k], f.geometry)
             ELSE [w |-> w2, result |-> "ContinueRenderingChildren"]} |->
         Let([w3 \in {[r.w EXCEPT !.results = Append(r.w.results,
                          [item |-> kids[k], do_draw |-> f.draw, result |-> r.result])]} |->
                 render_item_children_drawn_only(
                     restore_state(IF r.result = "ContinueRenderingChildren"
                                   THEN render_item_children_drawn_only(w3, dr, Children(kids[k]), 1)
                                   ELSE w3),
                     dr, kids, k + 1)])])])])

\* render_item_children that descends whatever the rendering result
RECURSIVE render_item_children_always_descends(_, _, _, _)
render_item_children_always_descends(w, dr, kids, k) ==
    IF k > Len(kids) THEN w
    ELSE Let([f \in {filter_item(save_state(w), dr, kids[k])} |->
         Let([w2 \in {translate(f.w, origin_to_vector(f.geometry))} |->
         Let([r \in {IF f.draw \/ clips_children(kids[k]) \/ kind[kids[k]] = "BoxShadow"
             THEN forward_rendering_call(w2, kids[k], f.geometry)
             ELSE [w |-> w2, result |-> "ContinueRenderingChildren"]} |->
         Let([w3 \in {[r.w EXCEPT !.results = Append(r.w.results,
                          [item |-> kids[k], do_draw |-> f.draw, result |-> r.result])]} |->
                 render_item_children_always_descends(
                     restore_state(
                         render_item_children_always_descends(w3, dr, Children(kids[k]), 1)),
                     dr, kids, k + 1)])])])])

\* render_item_children that returns early, without restore_state, when the
\* children are not to be rendered
RECURSIVE render_item_children_leaves_state(_, _, _, _)
render_item_children_leaves_state(w, dr, kids, k) ==
    IF k > Len(kids) THEN w
    ELSE Let([f \in {filter_item(save_state(w), dr, kids[k])} |->
         Let([w2 \in {translate(f.w, origin_to_vector(f.geometry))} |->
         Let([r \in {IF f.draw \/ clips_children(kids[k]) \/ kind[kids[k]] = "BoxShadow"
             THEN forward_rendering_call(w2, kids[k], f.geometry)
             ELSE [w |-> w2, result |-> "ContinueRenderingChildren"]} |->
         Let([w3 \in {[r.w EXCEPT !.results = Append(r.w.results,
                          [item |-> kids[k], do_draw |-> f.draw, result |-> r.result])]} |->
                 render_item_children_leaves_state(
                     IF r.result = "ContinueRenderingChildren"
                     THEN restore_state(
                              render_item_children_leaves_state(
                                  w3, dr, Children(kids[k]), 1))
                     ELSE w3,
                     dr, kids, k + 1)])])])])

\* render_item_children: the visitor of one item, then of its following siblings
RECURSIVE render_item_children(_, _, _, _)
render_item_children(w, dr, kids, k) ==
    IF k > Len(kids) THEN w
    ELSE Let([f \in {filter_item(save_state(w), dr, kids[k])} |->
         Let([w2 \in {translate(f.w, origin_to_vector(f.geometry))} |->
         Let([r \in {IF f.draw \/ clips_children(kids[k]) \/ kind[kids[k]] = "BoxShadow"
             THEN forward_rendering_call(w2, kids[k], f.geometry)
             ELSE [w |-> w2, result |-> "ContinueRenderingChildren"]} |->
         Let([w3 \in {[r.w EXCEPT !.results = Append(r.w.results,
                          [item |-> kids[k], do_draw |-> f.draw, result |-> r.result])]} |->
                 render_item_children(
                     restore_state(IF r.result = "ContinueRenderingChildren"
                                   THEN render_item_children(w3, dr, Children(kids[k]), 1)
                                   ELSE w3),
                     dr, kids, k + 1)])])])])

\* render_component_items
render_component_items(w, dr, origin) ==
    restore_state(render_item_children(translate(save_state(w), origin), dr, RootChildren, 1))

\* the state a render pass starts in: the wrapped renderer clips to the window
render_start(c, h, pref) ==
    [cache |-> c, handle |-> h, pref |-> pref, clip |-> WindowRect, tr |-> Vec(0, 0),
     stack |-> <<>>, visited |-> {}, drawn |-> <<>>, filtered |-> <<>>, results |-> <<>>,
     events |-> <<>>]

(***************************************************************************)
(* PartialRenderingState                                                   *)
(***************************************************************************)
\* apply_dirty_region that takes region_to_repaint after the buffer's region is merged
apply_dirty_region_snapshots_late(dr, refresh, size, dirty_region_of_existing_buffer) ==
    Let([computed \in {compute_dirty_regions(dr, Vec(0, 0), size)} |->
    Let([screen_region \in {MkRect(0, 0, size.w, size.h)} |->
    Let([forced \in {IF refresh THEN DirtyRegionFrom(screen_region) ELSE computed} |->
    Let([merged \in {IF IsSome(dirty_region_of_existing_buffer)
                     THEN union(forced, dirty_region_of_existing_buffer.some)
                     ELSE forced} |->
        [region_to_repaint |-> merged,
         dirty_region |-> intersection(merged, screen_region)]])])])])

\* apply_dirty_region that does not look at force_screen_refresh
apply_dirty_region_ignores_refresh(dr, refresh, size, dirty_region_of_existing_buffer) ==
    Let([computed \in {compute_dirty_regions(dr, Vec(0, 0), size)} |->
        [region_to_repaint |-> computed,
         dirty_region |->
             intersection(IF IsSome(dirty_region_of_existing_buffer)
                          THEN union(computed, dirty_region_of_existing_buffer.some)
                          ELSE computed,
                          MkRect(0, 0, size.w, size.h))]])

\* apply_dirty_region that leaves the buffer's region out of the renderer's region
apply_dirty_region_drops_buffer(dr, refresh, size, dirty_region_of_existing_buffer) ==
    Let([computed \in {compute_dirty_regions(dr, Vec(0, 0), size)} |->
    Let([screen_region \in {MkRect(0, 0, size.w, size.h)} |->
    Let([forced \in {IF refresh THEN DirtyRegionFrom(screen_region) ELSE computed} |->
        [region_to_repaint |-> forced,
         dirty_region |-> intersection(forced, screen_region)]])])])

\* apply_dirty_region: what it returns and what it leaves in the renderer
apply_dirty_region(dr, refresh, size, dirty_region_of_existing_buffer) ==
    Let([computed \in {compute_dirty_regions(dr, Vec(0, 0), size)} |->
    Let([screen_region \in {MkRect(0, 0, size.w, size.h)} |->
    Let([forced \in {IF refresh THEN DirtyRegionFrom(screen_region) ELSE computed} |->
        [region_to_repaint |-> forced,
         dirty_region |->
             intersection(IF IsSome(dirty_region_of_existing_buffer)
                          THEN union(forced, dirty_region_of_existing_buffer.some)
                          ELSE forced,
                          screen_region)]])])])

\* mark_dirty_region that forgets what was marked before
mark_dirty_region_replaces(fd, r) == union(DirtyRegionDefault, r)

\* mark_dirty_region
mark_dirty_region(fd, r) == union(fd, r)

\* free_graphics_resources: release each item of the iterator
RECURSIVE release_all(_, _, _)
release_all(hs, c, todo) ==
    IF todo = {} THEN [handle |-> hs, cache |-> c, panic |-> FALSE]
    ELSE Let([i \in {CHOOSE x \in todo : \A y \in todo : x <= y} |->
         Let([r \in {release(hs[i], c)} |->
             [release_all([hs EXCEPT ![i] = r.handle], r.cache, todo \ {i})
                 EXCEPT !.panic = @ \/ r.panic]])])

(***************************************************************************)
(* Property changes: a tracker becomes dirty when a property it read       *)
(* changes.                                                                *)
(***************************************************************************)
mark_trackers_dirty(c, i, property) ==
    [c EXCEPT !.slab = [s \in Slots |->
        IF c.slab[s] # Vacant /\ c.slab[s].by = i /\ property \in c.slab[s].deps
        THEN [c.slab[s] EXCEPT !.dirty = TRUE]
        ELSE c.slab[s]]]

\* the items whose handle is valid against the cache
ValidItems(hs, c) == {i \in Items : hs[i].cache_generation = generation(c)}

(***************************************************************************)
(* History variables.  `hist` records what happened since the frame steps  *)
(* the claims speak about.  `last` holds the last operation that returns   *)
(* something to its caller (an argument, the result, and for               *)
(* apply_dirty_region the history before it); the other operations leave   *)
(* Quiet in it.                                                            *)
(***************************************************************************)
HistInit ==
    [refresh |-> FALSE,     \* force_screen_refresh() since the last apply_dirty_region
     freed |-> "no",        \* free_graphics_resources() since the last apply_dirty_region:
                            \* "no", "empty" (only with no item), "items"
     quiet |-> FALSE,       \* a frame whose render pass visited every item ended,
                            \* and nothing changed and no request was made since
     change |-> "none",     \* property changes since the last render pass:
                            \* "none", "leaf" (only the geometry of item 2), "other"
     cleared |-> {},        \* items valid at a clear_cache and not re-inserted since
     marked |-> {},         \* the non-empty rectangles passed to mark_dirty_region
                            \* since the last create_partial_renderer, and whether
                            \* a frame was in progress
     taken |-> {},          \* those the last create_partial_renderer took over
     forced |-> "no"]       \* the requests the last apply_dirty_region consumed, when
                            \* nothing was requested or changed since that frame's
                            \* create_partial_renderer: "no", "marked", "refresh", "both"

Op(name, item, ret) == [op |-> name, item |-> item, ret |-> ret, pre |-> None]
Quiet == Op("none", -1, None)

\* a request made of the PartialRenderingState
Call(h) == [h EXCEPT !.quiet = FALSE, !.forced = "no"]

Leaf == 2

(***************************************************************************)
(* ItemCache<T>: for each component that has a sub-map, the entries of its *)
(* items (Vacant: a component without sub-map, an item without entry).     *)
(* Component 0 has two items, component 1 has one.  The update_fn of an    *)
(* item reads the item's property and returns its value, so T is the type  *)
(* of the property.  A PropertyTracker is the properties it read and       *)
(* whether one of them changed since.                                      *)
(***************************************************************************)
Components == {0, 1}
\* ItemRc::index() of the items of component c
ItemIndexes(c) == IF c = 0 THEN {0, 1} ELSE {0}
\* the values of an item's property
MaxVal == 1
\* the window's scale factors
MaxScale == 2

\* PropertyTracker::default(): nothing registered yet, and dirty, so that its first
\* use evaluates
PropertyTrackerDefault == [deps |-> {}, dirty |-> TRUE]

\* PropertyTracker::evaluate_as_dependency_root on the scale factor
evaluate_as_dependency_root(t) == [deps |-> {"scale_factor"}, dirty |-> FALSE]

ItemCacheDefault ==
    [map |-> [c \in Components |-> Vacant],
     window_scale_factor_tracker |-> PropertyTrackerDefault]

\* HashMap::entry(component).or_default()
or_default(m, c) ==
    IF m[c] = Vacant THEN [m EXCEPT ![c] = [entries |-> [i \in ItemIndexes(c) |-> Vacant]]] ELSE m

\* get_or_update_cache_entry that returns the stored value whatever the tracker says
get_or_update_cache_entry_keeps_stale(ic, c, i, update_fn) ==
    Let([borrowed \in {or_default(ic.map, c)} |->
        IF borrowed[c].entries[i] # Vacant
        THEN [cache |-> [ic EXCEPT !.map = borrowed],
              ret |-> borrowed[c].entries[i].data,
              calls |-> 0]
        ELSE [cache |-> [ic EXCEPT !.map = [borrowed EXCEPT ![c].entries[i] =
                            CachedGraphicsDataNew(i, update_fn, {"property"})]],
              ret |-> update_fn,
              calls |-> 1]])

\* ItemCache::get_or_update_cache_entry: the cache after it, what it returns and how
\* often it called update_fn, whose result is the argument update_fn
get_or_update_cache_entry(ic, c, i, update_fn) ==
    Let([borrowed \in {or_default(ic.map, c)} |->
        IF borrowed[c].entries[i] # Vacant
        THEN IF borrowed[c].entries[i].dirty
             THEN [cache |-> [ic EXCEPT !.map = [borrowed EXCEPT ![c].entries[i] =
                                 [@ EXCEPT !.data = update_fn, !.dirty = FALSE]]],
                   ret |-> update_fn,
                   calls |-> 1]
             ELSE [cache |-> [ic EXCEPT !.map = borrowed],
                   ret |-> borrowed[c].entries[i].data,
                   calls |-> 0]
        ELSE [cache |-> [ic EXCEPT !.map = [borrowed EXCEPT ![c].entries[i] =
                            CachedGraphicsDataNew(i, update_fn, {"property"})]],
              ret |-> update_fn,
              calls |-> 1]])

\* RefCell::borrow_mut on the map: it panics while the map is borrowed
borrow_mut(st) ==
    IF st.borrowed THEN [st EXCEPT !.panic = TRUE] ELSE [st EXCEPT !.borrowed = TRUE]

\* the RefMut goes out of scope
drop(st) == [st EXCEPT !.borrowed = FALSE]

\* get_mut(&component).unwrap().get_mut(&index).unwrap() and the store into the entry
\* found, or get_mut(&component).unwrap().insert(index, entry): unwrap panics when
\* there is nothing to get
store_entry(st, c, i, entry, must_exist) ==
    IF st.panic THEN st
    ELSE IF st.map[c] = Vacant \/ (must_exist /\ st.map[c].entries[i] = Vacant)
    THEN [st EXCEPT !.panic = TRUE]
    ELSE [st EXCEPT !.map[c].entries[i] = entry]

\* get_or_update_cache_entry that keeps the map borrowed while update_fn runs for
\* an item that has no entry yet
RECURSIVE get_or_update_cache_entry_keeps_borrow(_, _, _)
get_or_update_cache_entry_keeps_borrow(st, calls, k) ==
    Let([c \in {calls[k].component} |->
    Let([i \in {calls[k].index} |->
    Let([s1 \in {borrow_mut(st)} |->
        IF s1.panic THEN s1
        ELSE
    Let([s2 \in {[s1 EXCEPT !.map = or_default(s1.map, c)]} |->
    Let([found \in {s2.map[c].entries[i]} |->
        IF found # Vacant
        THEN Let([taken \in {drop([s2 EXCEPT !.map[c].entries[i] =
                                 [@ EXCEPT !.deps = {}, !.dirty = TRUE]])} |->
                 IF found.dirty
                 THEN Let([s3 \in {IF k < Len(calls)
                                   THEN get_or_update_cache_entry_keeps_borrow(taken, calls, k + 1)
                                   ELSE taken} |->
                          IF s3.panic THEN s3
                          ELSE drop(store_entry(
                                   borrow_mut(s3), c, i,
                                   [found EXCEPT !.data = properties[c][i],
                                                 !.deps = {"property"},
                                                 !.dirty = FALSE],
                                   TRUE))])
                 ELSE drop(store_entry(borrow_mut(taken), c, i, found, TRUE))])
        ELSE Let([s3 \in {IF k < Len(calls)
                          THEN get_or_update_cache_entry_keeps_borrow(s2, calls, k + 1)
                          ELSE s2} |->
                 IF s3.panic THEN s3
                 ELSE drop(store_entry(
                          borrow_mut(s3), c, i,
                          CachedGraphicsDataNew(i, properties[c][i], {"property"}),
                          FALSE))])])])])])])

\* ItemCache::get_or_update_cache_entry step by step, for the items calls[k],
\* calls[k + 1], ...: the update_fn of an item, when it runs, first calls
\* get_or_update_cache_entry for the next item and then returns its own item's
\* property.  st is the map, whether it is borrowed, and whether a panic occurred.
RECURSIVE get_or_update_cache_entry_nested(_, _, _)
get_or_update_cache_entry_nested(st, calls, k) ==
    Let([c \in {calls[k].component} |->
    Let([i \in {calls[k].index} |->
    Let([s1 \in {borrow_mut(st)} |->
        IF s1.panic THEN s1
        ELSE
    Let([s2 \in {[s1 EXCEPT !.map = or_default(s1.map, c)]} |->
    Let([found \in {s2.map[c].entries[i]} |->
        IF found # Vacant
        THEN Let([taken \in {drop([s2 EXCEPT !.map[c].entries[i] =
                                 [@ EXCEPT !.deps = {}, !.dirty = TRUE]])} |->
                 IF found.dirty
                 THEN Let([s3 \in {IF k < Len(calls)
                                   THEN get_or_update_cache_entry_nested(taken, calls, k + 1)
                                   ELSE taken} |->
                          IF s3.panic THEN s3
                          ELSE drop(store_entry(
                                   borrow_mut(s3), c, i,
                                   [found EXCEPT !.data = properties[c][i],
                                                 !.deps = {"property"},
                                                 !.dirty = FALSE],
                                   TRUE))])
                 ELSE drop(store_entry(borrow_mut(taken), c, i, found, TRUE))])
        ELSE Let([s3 \in {IF k < Len(calls)
                          THEN get_or_update_cache_entry_nested(drop(s2), calls, k + 1)
                          ELSE drop(s2)} |->
                 IF s3.panic THEN s3
                 ELSE drop(store_entry(
                          borrow_mut(s3), c, i,
                          CachedGraphicsDataNew(i, properties[c][i], {"property"}),
                          FALSE))])])])])])])

\* ItemCache::with_entry with a callback that returns Some of what it is given
with_entry(ic, c, i) ==
    IF ic.map[c] # Vacant /\ ic.map[c].entries[i] # Vacant
    THEN Some(ic.map[c].entries[i].data)
    ELSE None

\* ItemCache::clear_all
clear_all(ic) == [ic EXCEPT !.map = [c \in Components |-> Vacant]]

\* clear_cache_if_scale_factor_changed that never clears
clear_cache_if_scale_factor_changed_keeps(ic) ==
    IF ic.window_scale_factor_tracker.dirty
    THEN [ic EXCEPT !.window_scale_factor_tracker = evaluate_as_dependency_root(@)]
    ELSE ic

\* ItemCache::clear_cache_if_scale_factor_changed
clear_cache_if_scale_factor_changed(ic) ==
    IF ic.window_scale_factor_tracker.dirty
    THEN clear_all([ic EXCEPT
                       !.window_scale_factor_tracker = evaluate_as_dependency_root(@)])
    ELSE ic

\* ItemCache::component_destroyed
component_destroyed(ic, c) == [ic EXCEPT !.map[c] = Vacant]

\* ItemCache::release
item_cache_release(ic, c, i) ==
    IF ic.map[c] # Vacant THEN [ic EXCEPT !.map[c].entries[i] = Vacant] ELSE ic

\* ItemCache::is_empty
is_empty(ic) == \A c \in Components : ic.map[c] = Vacant

\* the items that have an entry in the cache
Entries(ic) ==
    {e \in [component : Components, index : UNION {ItemIndexes(c) : c \in Components}] :
        /\ e.index \in ItemIndexes(e.component)
        /\ ic.map[e.component] # Vacant
        /\ ic.map[e.component].entries[e.index] # Vacant}

\* the entry of item i of component c, if any
EntryOf(ic, c, i) ==
    IF ic.map[c] # Vacant /\ ic.map[c].entries[i] # Vacant THEN Some(ic.map[c].entries[i]) ELSE None

\* the ItemCache while the other specifications run: never used
ItemCacheIdle ==
    /\ item_cache = ItemCacheDefault
    /\ properties = [c \in Components |-> [i \in ItemIndexes(c) |-> 0]]
    /\ scale_factor = 1
    /\ scale_hist = "never"

(***************************************************************************)
(* The frames of one window.                                               *)
(***************************************************************************)
KindChoices == {k \in [Items -> Kinds] : k[0] = "Rectangle" /\ k[2] = "Rectangle"}
GeometryInit == {g \in [Items -> UNION {GeometryChoices(i) : i \in Items}] :
                    \A i \in Items : g[i] \in GeometryChoices(i)}

FrameInit ==
    /\ children = ChainTree
    /\ kind \in KindChoices
    /\ geometry \in GeometryInit
    /\ handle = [i \in Items |-> HandleDefault]
    /\ cache = RenderingCacheDefault
    /\ force_dirty = DirtyRegionDefault
    /\ force_screen_refresh = FALSE
    /\ pc = "idle"
    /\ dirty_region = DirtyRegionDefault
    /\ last = Op("init", -1, None)
    /\ hist = HistInit

RegionIdle ==
    /\ region = DirtyRegionDefault
    /\ rop = "default"

\* the geometry property of an item is set to another value, between frames
SetGeometry(i, g) ==
    /\ pc = "idle"
    /\ g # geometry[i]
    /\ geometry' = [geometry EXCEPT ![i] = g]
    /\ cache' = mark_trackers_dirty(cache, i, "geometry")
    /\ hist' = [hist EXCEPT !.quiet = FALSE,
                            !.forced = "no",
                            !.change = IF i = Leaf /\ @ \in {"none", "leaf"}
                                       THEN "leaf" ELSE "other"]
    /\ last' = Quiet
    /\ UNCHANGED <<children, kind, handle, force_dirty, force_screen_refresh, pc, dirty_region>>

\* a property the item's drawing reads is set to another value, between frames
SetVisual(i) ==
    /\ pc = "idle"
    /\ cache' = mark_trackers_dirty(cache, i, "visual")
    /\ hist' = [hist EXCEPT !.quiet = FALSE, !.forced = "no", !.change = "other"]
    /\ last' = Quiet
    /\ UNCHANGED <<children, kind, geometry, handle, force_dirty, force_screen_refresh, pc,
                   dirty_region>>

\* create_partial_renderer that copies force_dirty and leaves it in place
CreatePartialRenderer_keeps_force_dirty ==
    /\ pc = "idle"
    /\ dirty_region' = force_dirty
    /\ force_dirty' = force_dirty
    /\ pc' = "created"
    /\ last' = Quiet
    /\ hist' = [hist EXCEPT !.taken = hist.marked, !.marked = {}]
    /\ UNCHANGED <<children, kind, geometry, handle, cache, force_screen_refresh>>

\* PartialRenderingState::create_partial_renderer
CreatePartialRenderer ==
    /\ pc = "idle"
    /\ dirty_region' = force_dirty
    /\ force_dirty' = DirtyRegionDefault
    /\ pc' = "created"
    /\ last' = Quiet
    /\ hist' = [hist EXCEPT !.taken = hist.marked, !.marked = {}]
    /\ UNCHANGED <<children, kind, geometry, handle, cache, force_screen_refresh>>

\* the regions a caller passes as dirty_region_of_existing_buffer
BufferChoices ==
    {None, Some(DirtyRegionFrom(MkRect(WinW - 1, 0, 2, WinH)))}

\* PartialRenderingState::apply_dirty_region; last.ret is the region it returns and
\* last.visits the visits of its compute_dirty_regions pass
ApplyDirtyRegion(buffer) ==
    /\ pc = "created"
    /\ \E r \in {apply_dirty_region(dirty_region, force_screen_refresh,
                                     MkRect(0, 0, WinW, WinH), buffer)} :
           /\ dirty_region' = r.dirty_region
           /\ last' = [op |-> "apply_dirty_region", item |-> buffer,
                       ret |-> r.region_to_repaint, pre |-> hist,
                       visits |-> compute_dirty_regions_visits(
                                      dirty_region, Vec(0, 0),
                                      MkRect(0, 0, WinW, WinH)).visits]
    /\ force_screen_refresh' = FALSE
    /\ pc' = "applied"
    /\ hist' = [hist EXCEPT !.refresh = FALSE, !.freed = "no",
                            !.forced = IF hist.marked # {} THEN "no"
                                       ELSE IF force_screen_refresh
                                       THEN IF dirty_region.count > 0
                                            THEN "both" ELSE "refresh"
                                       ELSE IF dirty_region.count > 0
                                       THEN "marked" ELSE "no"]
    /\ UNCHANGED <<children, kind, geometry, handle, cache, force_dirty>>

\* the render pass: render_component_items through the PartialRenderer, which is
\* dropped afterwards; last.ret is what the pass visited and drew, the calls of
\* filter_item and the rendering results
RenderPass(pref) ==
    /\ pc = "applied"
    /\ \E w \in {render_component_items(render_start(cache, handle, pref), dirty_region,
                                         Vec(0, 0))} :
           /\ cache' = w.cache
           /\ handle' = w.handle
           /\ last' = Op("render", -1, [visited |-> w.visited, drawn |-> w.drawn,
                                        filtered |-> w.filtered, results |-> w.results,
                                        events |-> w.events,
                                        left |-> [stack |-> w.stack, clip |-> w.clip,
                                                  tr |-> w.tr]])
           /\ hist' = [hist EXCEPT !.quiet = (w.visited = Items /\ hist.marked = {}),
                                   !.change = "none",
                                   !.cleared = @ \ w.visited]
    /\ dirty_region' = DirtyRegionDefault
    /\ pc' = "idle"
    /\ UNCHANGED <<children, kind, geometry, force_dirty, force_screen_refresh>>

\* the rectangles a caller marks dirty
MarkChoices == {MkRect(0, 0, 0, WinH), MkRect(WinW - 1, 0, 1, WinH)}

\* PartialRenderingState::mark_dirty_region, between frames
MarkDirtyRegion(r) ==
    /\ pc = "idle"
    /\ force_dirty' = mark_dirty_region(force_dirty, DirtyRegionFrom(r))
    /\ hist' = [Call(hist) EXCEPT !.marked =
                    IF rect_is_empty(r) THEN @ ELSE @ \cup {[rect |-> r, in_frame |-> FALSE]}]
    /\ last' = Quiet
    /\ UNCHANGED <<children, kind, geometry, handle, cache, force_screen_refresh, pc, dirty_region>>

\* PartialRenderingState::mark_dirty_region, between create_partial_renderer and
\* apply_dirty_region of the frame in progress
MarkDirtyRegionInFrame(r) ==
    /\ pc = "created"
    /\ force_dirty' = mark_dirty_region(force_dirty, DirtyRegionFrom(r))
    /\ hist' = [Call(hist) EXCEPT !.marked =
                    IF rect_is_empty(r) THEN @ ELSE @ \cup {[rect |-> r, in_frame |-> TRUE]}]
    /\ last' = Quiet
    /\ UNCHANGED <<children, kind, geometry, handle, cache, force_screen_refresh, pc, dirty_region>>

\* PartialRenderingState::force_screen_refresh, between frames
ForceScreenRefresh ==
    /\ pc = "idle"
    /\ force_screen_refresh' = TRUE
    /\ hist' = [Call(hist) EXCEPT !.refresh = TRUE]
    /\ last' = Quiet
    /\ UNCHANGED <<children, kind, geometry, handle, cache, force_dirty, pc, dirty_region>>

\* free_graphics_resources that does not set force_screen_refresh
FreeGraphicsResources_no_refresh(items) ==
    /\ pc = "idle"
    /\ \E r \in {release_all(handle, cache, items)} :
           /\ handle' = r.handle
           /\ cache' = r.cache
           /\ last' = Op("free_graphics_resources", -1, r.panic)
    /\ hist' = [Call(hist) EXCEPT !.freed = IF items = {} /\ @ # "items"
                                              THEN "empty" ELSE "items"]
    /\ UNCHANGED <<children, kind, geometry, force_dirty, force_screen_refresh, pc, dirty_region>>

\* PartialRenderingState::free_graphics_resources, between frames
FreeGraphicsResources(items) ==
    /\ pc = "idle"
    /\ \E r \in {release_all(handle, cache, items)} :
           /\ handle' = r.handle
           /\ cache' = r.cache
           /\ last' = Op("free_graphics_resources", -1, r.panic)
    /\ force_screen_refresh' = TRUE
    /\ hist' = [Call(hist) EXCEPT !.freed = IF items = {} /\ @ # "items"
                                              THEN "empty" ELSE "items"]
    /\ UNCHANGED <<children, kind, geometry, force_dirty, pc, dirty_region>>

\* PartialRenderingState::clear_cache, between frames
ClearCache ==
    /\ pc = "idle"
    /\ generation(cache) < MaxGen
    /\ cache' = cache_clear(cache)
    /\ hist' = [Call(hist) EXCEPT !.cleared = @ \cup ValidItems(handle, cache)]
    /\ last' = Quiet
    /\ UNCHANGED <<children, kind, geometry, handle, force_dirty, force_screen_refresh, pc,
                   dirty_region>>

\* the sets of items free_graphics_resources is called with between the frames of Spec;
\* Spec clears the cache once, SpecCache as often as MaxGen allows
FreeChoices == {{}, {Leaf}, Items}

Init == FrameInit /\ RegionIdle /\ ItemCacheIdle

Next ==
    \/ \E i \in Items : \E g \in GeometryChoices(i) :
           SetGeometry(i, g) /\ UNCHANGED notFrameVars
    \/ \E i \in Items : SetVisual(i) /\ UNCHANGED notFrameVars
    \/ CreatePartialRenderer /\ UNCHANGED notFrameVars
    \/ \E b \in BufferChoices : ApplyDirtyRegion(b) /\ UNCHANGED notFrameVars
    \/ RenderPass(LowestFirst) /\ UNCHANGED notFrameVars
    \/ \E r \in MarkChoices : MarkDirtyRegion(r) /\ UNCHANGED notFrameVars
    \/ ForceScreenRefresh /\ UNCHANGED notFrameVars
    \/ \E items \in FreeChoices : FreeGraphicsResources(items) /\ UNCHANGED notFrameVars
    \/ /\ generation(cache) = generation(RenderingCacheDefault)
       /\ ClearCache
       /\ UNCHANGED notFrameVars

Spec == Init /\ [][Next]_vars

(***************************************************************************)
(* SpecRegion: one DirtyRegion and the calls made on it.  union and        *)
(* intersection return a new region, which becomes the region under test.  *)
(* rop tells which call was made last and, for add_rect and add_box, which *)
(* way add_box went.                                                       *)
(***************************************************************************)
\* every box with corners on the grid and min <= max, the empty ones included
GridBoxes ==
    {b \in [x0 : 0..GridW, y0 : 0..GridH, x1 : 0..GridW, y1 : 0..GridH] :
        b.x0 <= b.x1 /\ b.y0 <= b.y1}
GridRects == {to_rect(b) : b \in GridBoxes}
\* the rectangles add_rect and intersection are called with: every non-empty
\* rectangle of the grid, and two empty ones
RectInputs ==
    {to_rect(b) : b \in {g \in GridBoxes : ~box_is_empty(g)}}
        \cup {MkRect(0, 0, 0, 1), MkRect(1, 1, 1, 0)}
\* the boxes add_box is called with: a full row, a full column and an empty box
BoxInputs ==
    {MkBox(0, 0, GridW, 1), MkBox(0, 0, 1, GridH), MkBox(1, 0, 1, 1)}
\* the regions passed to union: built from at most two of three boxes
UnionInputs ==
    {MkBox(0, 0, 1, 1), MkBox(GridW - 1, GridH - 1, GridW, GridH), MkBox(0, 0, GridW, 1)}
OtherRegions ==
    {add_box(add_box(DirtyRegionDefault, a), b) : a \in UnionInputs, b \in UnionInputs}

\* the grid cells of a box
Cells(b) == {c \in (0..(GridW - 1)) \X (0..(GridH - 1)) :
                b.x0 <= c[1] /\ c[1] < b.x1 /\ b.y0 <= c[2] /\ c[2] < b.y1}
\* the grid cells of the stored boxes of a region
RegionCells(r) == UNION {Cells(r.rectangles[i]) : i \in 0..(r.count - 1)}

\* which way add_box goes for box b on region s
add_box_path(s, b) ==
    IF box_is_empty(b) THEN "empty"
    ELSE LET scan == add_box_scan(s, b, 0)
         IN  IF scan.ret THEN "contained"
             ELSE IF scan.region.count < MAX_COUNT THEN "appended" ELSE "merged"

RegionInit ==
    /\ region = DirtyRegionDefault
    /\ rop = "default"

FrameIdle ==
    /\ children = ChainTree
    /\ kind = [i \in Items |-> "Rectangle"]
    /\ geometry = [i \in Items |-> WindowRect]
    /\ handle = [i \in Items |-> HandleDefault]
    /\ cache = RenderingCacheDefault
    /\ force_dirty = DirtyRegionDefault
    /\ force_screen_refresh = FALSE
    /\ pc = "idle"
    /\ dirty_region = DirtyRegionDefault
    /\ last = Op("init", -1, None)
    /\ hist = HistInit

\* DirtyRegion::default()
RDefault ==
    /\ region' = DirtyRegionDefault
    /\ rop' = "default"

RAddRect(r) ==
    /\ region' = add_rect(region, r)
    /\ rop' = add_box_path(region, to_box2d(r))

RAddBox(b) ==
    /\ region' = add_box(region, b)
    /\ rop' = add_box_path(region, b)

RUnion(other) ==
    /\ region' = union(region, other)
    /\ rop' = "union"

RIntersection(r) ==
    /\ region' = intersection(region, r)
    /\ rop' = "intersection"

InitRegion == RegionInit /\ FrameIdle /\ ItemCacheIdle

NextRegion ==
    \/ RDefault /\ UNCHANGED notRegionVars
    \/ \E r \in RectInputs : RAddRect(r) /\ UNCHANGED notRegionVars
    \/ \E b \in BoxInputs : RAddBox(b) /\ UNCHANGED notRegionVars
    \/ \E other \in OtherRegions : RUnion(other) /\ UNCHANGED notRegionVars
    \/ \E r \in RectInputs : RIntersection(r) /\ UNCHANGED notRegionVars

SpecRegion == InitRegion /\ [][NextRegion]_vars

(***************************************************************************)
(* SpecCache: the items' handles against one PartialRenderingCache.  Item  *)
(* 1 is a Clip, which hides item 2 from the render pass while it lies      *)
(* outside the window.  The frames run without a buffer to merge, the      *)
(* cache hands out its vacant slots in any order, and get_entry is called  *)
(* with handles of every index and generation.                             *)
(***************************************************************************)
CacheKinds == [i \in Items |-> IF i = 1 THEN "Clip" ELSE "Rectangle"]

\* the handles get_entry is called with; one index lies beyond the slots
HandleChoices == [cache_index : 0..Cardinality(Items), cache_generation : 0..MaxGen]

CacheInit ==
    /\ children = ChainTree
    /\ kind = CacheKinds
    /\ geometry = [i \in Items |-> IF i = 0 THEN WindowRect
                                    ELSE IF i = 1 THEN MkRect(0, 0, 2, WinH)
                                    ELSE MkRect(0, 0, 1, WinH)]
    /\ handle = [i \in Items |-> HandleDefault]
    /\ cache = RenderingCacheDefault
    /\ force_dirty = DirtyRegionDefault
    /\ force_screen_refresh = FALSE
    /\ pc = "idle"
    /\ dirty_region = DirtyRegionDefault
    /\ last = Op("init", -1, None)
    /\ hist = HistInit

\* CachedRenderingData::get_entry on handle h, between frames; last.item is h and
\* last.ret the result
GetEntry(h) ==
    /\ pc = "idle"
    /\ last' = Op("get_entry", h, get_entry(h, cache))
    /\ UNCHANGED <<children, kind, geometry, handle, cache, force_dirty, force_screen_refresh, pc,
                   dirty_region, hist>>

\* CachedRenderingData::release on the handle of item i, called by a backend between
\* frames; last.ret is what it returns, last.pre the handle and the cache before
Release(i) ==
    /\ pc = "idle"
    /\ \E r \in {release(handle[i], cache)} :
           /\ handle' = [handle EXCEPT ![i] = r.handle]
           /\ cache' = r.cache
           /\ last' = [op |-> "release", item |-> i, ret |-> r.ret,
                       pre |-> [handle |-> handle[i], cache |-> cache]]
    /\ hist' = Call(hist)
    /\ UNCHANGED <<children, kind, geometry, force_dirty, force_screen_refresh, pc, dirty_region>>

InitCache == CacheInit /\ RegionIdle /\ ItemCacheIdle

NextCache ==
    \/ \E g \in GeometryChoices(1) : SetGeometry(1, g) /\ UNCHANGED notFrameVars
    \/ CreatePartialRenderer /\ UNCHANGED notFrameVars
    \/ ApplyDirtyRegion(None) /\ UNCHANGED notFrameVars
    \/ \E pref \in SlotOrders : RenderPass(pref) /\ UNCHANGED notFrameVars
    \/ \E items \in SUBSET Items : FreeGraphicsResources(items) /\ UNCHANGED notFrameVars
    \/ ClearCache /\ UNCHANGED notFrameVars
    \/ \E h \in HandleChoices : GetEntry(h) /\ UNCHANGED notFrameVars
    \/ \E i \in Items : Release(i) /\ UNCHANGED notFrameVars

SpecCache == InitCache /\ [][NextCache]_vars

(***************************************************************************)
(* SpecMark: the frames of a window whose caller marks rectangles dirty,   *)
(* between frames and while a frame is in progress; some of the            *)
(* rectangles reach beyond the window.  The leaf moves, the screen is      *)
(* refreshed and resources are freed as in Spec.                           *)
(***************************************************************************)
\* the rectangles marked dirty between frames: one inside the window, one across
\* its right edge
DamageChoices == {MkRect(WinW - 1, 0, 1, WinH), MkRect(WinW - 1, 0, 2, WinH)}
\* the rectangle marked dirty while a frame is in progress
DamageInFrameChoices == {MkRect(0, 0, 1, WinH)}

InitMark == CacheInit /\ RegionIdle /\ ItemCacheIdle

NextMark ==
    \/ \E g \in GeometryChoices(Leaf) : SetGeometry(Leaf, g) /\ UNCHANGED notFrameVars
    \/ CreatePartialRenderer /\ UNCHANGED notFrameVars
    \/ \E b \in BufferChoices : ApplyDirtyRegion(b) /\ UNCHANGED notFrameVars
    \/ RenderPass(LowestFirst) /\ UNCHANGED notFrameVars
    \/ \E r \in DamageChoices : MarkDirtyRegion(r) /\ UNCHANGED notFrameVars
    \/ \E r \in DamageInFrameChoices : MarkDirtyRegionInFrame(r) /\ UNCHANGED notFrameVars
    \/ ForceScreenRefresh /\ UNCHANGED notFrameVars
    \/ FreeGraphicsResources({}) /\ UNCHANGED notFrameVars

SpecMark == InitMark /\ [][NextMark]_vars

(***************************************************************************)
(* SpecItemCache: one ItemCache, the items of two components and a window. *)
(* scale_hist tells whether the scale factor was set to another value     *)
(* since the last clear_cache_if_scale_factor_changed ("never": there was  *)
(* no such call).  last.pre holds what the call found.                     *)
(***************************************************************************)
ItemRcs ==
    {e \in [component : Components, index : UNION {ItemIndexes(c) : c \in Components}] :
        e.index \in ItemIndexes(e.component)}

ItemCacheInit ==
    /\ item_cache = ItemCacheDefault
    /\ properties = [c \in Components |-> [i \in ItemIndexes(c) |-> 0]]
    /\ scale_factor = 1
    /\ scale_hist = "never"

\* the property of an item is set to another value: the tracker of its entry, which
\* read the property, becomes dirty
SetProperty(e, v) ==
    /\ v # properties[e.component][e.index]
    /\ properties' = [properties EXCEPT ![e.component][e.index] = v]
    /\ item_cache' =
           IF IsSome(EntryOf(item_cache, e.component, e.index))
           THEN [item_cache EXCEPT !.map[e.component].entries[e.index].dirty =
                    @ \/ "property" \in item_cache.map[e.component].entries[e.index].deps]
           ELSE item_cache
    /\ last' = Quiet
    /\ UNCHANGED <<scale_factor, scale_hist>>

\* the window's scale factor is set to another value
SetScaleFactor(v) ==
    /\ v # scale_factor
    /\ scale_factor' = v
    /\ item_cache' = [item_cache EXCEPT !.window_scale_factor_tracker.dirty =
                         @ \/ "scale_factor" \in item_cache.window_scale_factor_tracker.deps]
    /\ scale_hist' = IF scale_hist = "never" THEN "never" ELSE "changed"
    /\ last' = Quiet
    /\ UNCHANGED properties

\* get_or_update_cache_entry for item e, with an update_fn that returns the property
GetOrUpdateCacheEntry(e) ==
    /\ \E r \in {get_or_update_cache_entry(item_cache, e.component, e.index,
                                           properties[e.component][e.index])} :
           /\ item_cache' = r.cache
           /\ last' = [op |-> "get_or_update_cache_entry", item |-> e, ret |-> r.ret,
                       pre |-> [entry |-> EntryOf(item_cache, e.component, e.index),
                                calls |-> r.calls]]
    /\ UNCHANGED <<properties, scale_factor, scale_hist>>

\* the cells of `calls` that name different items: the nested calls made
NestedCalls == {cs \in ItemRcs \X ItemRcs : cs[1] # cs[2]}

\* get_or_update_cache_entry for item calls[1], with an update_fn that calls
\* get_or_update_cache_entry for item calls[2] before it returns the property;
\* last.ret tells whether the call panicked
GetOrUpdateCacheEntryNested(calls) ==
    /\ \E r \in {get_or_update_cache_entry_nested(
                      [map |-> item_cache.map, borrowed |-> FALSE, panic |-> FALSE],
                      calls, 1)} :
           /\ item_cache' = IF r.panic THEN item_cache
                                       ELSE [item_cache EXCEPT !.map = r.map]
           /\ last' = [op |-> "get_or_update_cache_entry_nested", item |-> calls,
                       ret |-> [panic |-> r.panic, borrowed |-> r.borrowed],
                       pre |-> [entry |-> EntryOf(item_cache, calls[1].component,
                                                  calls[1].index),
                                inner |-> EntryOf(item_cache, calls[2].component,
                                                  calls[2].index),
                                map |-> item_cache.map]]
    /\ UNCHANGED <<properties, scale_factor, scale_hist>>

\* with_entry for item e; the callback was called exactly when last.ret is Some
WithEntry(e) ==
    /\ last' = [op |-> "with_entry", item |-> e,
                ret |-> with_entry(item_cache, e.component, e.index),
                pre |-> [entry |-> EntryOf(item_cache, e.component, e.index)]]
    /\ UNCHANGED itemCacheVars

ClearCacheIfScaleFactorChanged ==
    /\ item_cache' = clear_cache_if_scale_factor_changed(item_cache)
    /\ scale_hist' = "same"
    /\ last' = [op |-> "clear_cache_if_scale_factor_changed", item |-> -1, ret |-> None,
                pre |-> [scale_hist |-> scale_hist, map |-> item_cache.map]]
    /\ UNCHANGED <<properties, scale_factor>>

ClearAll ==
    /\ item_cache' = clear_all(item_cache)
    /\ last' = Quiet
    /\ UNCHANGED <<properties, scale_factor, scale_hist>>

ComponentDestroyed(c) ==
    /\ item_cache' = component_destroyed(item_cache, c)
    /\ last' = Quiet
    /\ UNCHANGED <<properties, scale_factor, scale_hist>>

ItemCacheRelease(e) ==
    /\ item_cache' = item_cache_release(item_cache, e.component, e.index)
    /\ last' = Op("item_cache_release", e, None)
    /\ UNCHANGED <<properties, scale_factor, scale_hist>>

IsEmpty ==
    /\ last' = Op("is_empty", -1, is_empty(item_cache))
    /\ UNCHANGED itemCacheVars

InitItemCache == ItemCacheInit /\ RegionIdle /\ FrameIdle

NextItemCache ==
    \/ \E e \in ItemRcs, v \in 0..MaxVal :
           SetProperty(e, v) /\ UNCHANGED notItemCacheVars
    \/ \E v \in 1..MaxScale : SetScaleFactor(v) /\ UNCHANGED notItemCacheVars
    \/ \E e \in ItemRcs : GetOrUpdateCacheEntry(e) /\ UNCHANGED notItemCacheVars
    \/ \E calls \in NestedCalls :
           GetOrUpdateCacheEntryNested(calls) /\ UNCHANGED notItemCacheVars
    \/ \E e \in ItemRcs : WithEntry(e) /\ UNCHANGED notItemCacheVars
    \/ ClearCacheIfScaleFactorChanged /\ UNCHANGED notItemCacheVars
    \/ ClearAll /\ UNCHANGED notItemCacheVars
    \/ \E c \in Components : ComponentDestroyed(c) /\ UNCHANGED notItemCacheVars
    \/ \E e \in ItemRcs : ItemCacheRelease(e) /\ UNCHANGED notItemCacheVars
    \/ IsEmpty /\ UNCHANGED notItemCacheVars

SpecItemCache == InitItemCache /\ [][NextItemCache]_vars

(***************************************************************************)
(* SpecTree: the frames of a window over both item trees.  The root is a   *)
(* Rectangle or an Opacity, item 1 of any type, a BoxShadow included, item *)
(* 2 a Rectangle.  The items move, also to places outside the window or    *)
(* outside a Clip above them, the root and item 1 change a property        *)
(* that their drawing reads, the cache is cleared and entries are          *)
(* released.  The frames run without a buffer to merge.                    *)
(***************************************************************************)
TreeKinds == Kinds \cup {"BoxShadow"}
TreeKindChoices ==
    {k \in [Items -> TreeKinds] : k[0] \in {"Rectangle", "Opacity"} /\ k[2] = "Rectangle"}
TreeChoices == {ChainTree, FanTree}
\* the sets of items free_graphics_resources is called with
TreeFreeChoices == {{1}, {Leaf}}
\* the values the geometry property of an item is set to: the root moves as well
TreeGeometryChoices(i) ==
    IF i = 0 THEN {WindowRect, MkRect(1, 0, WinW, WinH)} ELSE GeometryChoices(i)

TreeInit ==
    /\ children \in TreeChoices
    /\ kind \in TreeKindChoices
    /\ geometry = [i \in Items |-> IF i = 0 THEN WindowRect
                                    ELSE IF i = 1 THEN MkRect(0, 0, 2, WinH)
                                    ELSE MkRect(0, 0, 1, WinH)]
    /\ handle = [i \in Items |-> HandleDefault]
    /\ cache = RenderingCacheDefault
    /\ force_dirty = DirtyRegionDefault
    /\ force_screen_refresh = FALSE
    /\ pc = "idle"
    /\ dirty_region = DirtyRegionDefault
    /\ last = Op("init", -1, None)
    /\ hist = HistInit

InitTree == TreeInit /\ RegionIdle /\ ItemCacheIdle

NextTree ==
    \/ \E i \in Items : \E g \in TreeGeometryChoices(i) :
           SetGeometry(i, g) /\ UNCHANGED notFrameVars
    \/ \E i \in {0, 1} : SetVisual(i) /\ UNCHANGED notFrameVars
    \/ CreatePartialRenderer /\ UNCHANGED notFrameVars
    \/ ApplyDirtyRegion(None) /\ UNCHANGED notFrameVars
    \/ RenderPass(LowestFirst) /\ UNCHANGED notFrameVars
    \/ \E items \in TreeFreeChoices : FreeGraphicsResources(items) /\ UNCHANGED notFrameVars
    \/ /\ generation(cache) = generation(RenderingCacheDefault)
       /\ ClearCache
       /\ UNCHANGED notFrameVars

SpecTree == InitTree /\ [][NextTree]_vars

(***************************************************************************)
(* SpecDraw: the operations of the PartialRenderer called one by one.  The *)
(* renderer is an ItemRenderer: between apply_dirty_region and the end of  *)
(* the frame its draw and visit operations can be called for any item,     *)
(* whatever the state of the item's handle and entry.  last.ret is what    *)
(* reached the wrapped renderer and last.pre what the call found.          *)
(***************************************************************************)
\* draw_rectangle, visit_clip, ... of the PartialRenderer on item i
DrawCall(i) ==
    /\ pc = "applied"
    /\ \E r \in {forward_rendering_call(render_start(cache, handle, LowestFirst), i,
                                         item_geometry(i))} :
           /\ cache' = r.w.cache
           /\ handle' = r.w.handle
           /\ last' = [op |-> "draw", item |-> i,
                       ret |-> [drawn |-> r.w.drawn, result |-> r.result],
                       pre |-> [handle |-> handle[i],
                                entry |-> get_entry(handle[i], cache)]]
    /\ hist' = [Call(hist) EXCEPT !.cleared = @ \ {i}]
    /\ UNCHANGED <<children, kind, geometry, force_dirty, force_screen_refresh, pc,
                   dirty_region>>

InitDraw == CacheInit /\ RegionIdle /\ ItemCacheIdle

NextDraw ==
    \/ \E i \in {1, Leaf} : \E g \in GeometryChoices(i) :
           SetGeometry(i, g) /\ UNCHANGED notFrameVars
    \/ CreatePartialRenderer /\ UNCHANGED notFrameVars
    \/ ApplyDirtyRegion(None) /\ UNCHANGED notFrameVars
    \/ \E i \in Items : DrawCall(i) /\ UNCHANGED notFrameVars
    \/ RenderPass(LowestFirst) /\ UNCHANGED notFrameVars
    \/ FreeGraphicsResources({1}) /\ UNCHANGED notFrameVars
    \/ ClearCache /\ UNCHANGED notFrameVars

SpecDraw == InitDraw /\ [][NextDraw]_vars

(***************************************************************************)
(* SpecBounds: item_children_bounding_rect on the item trees of SpecTree,  *)
(* whose items move between the calls.  Index -1 stands for the component: *)
(* its child is the root item.  last.item is the index and the clip_rect   *)
(* of the call, last.ret the rectangle returned.                           *)
(***************************************************************************)
\* visit_children_item(index, ...): the children the visitor is called for
VisitedChildren(index) == IF index = -1 THEN RootChildren ELSE Children(index)

\* item_children_bounding_rect: the visitor on kids[k] and the following siblings,
\* `bounding` being the rectangle gathered so far (bounding_rect in the source)
RECURSIVE item_children_bounding_rect(_, _)
RECURSIVE actual_visitor(_, _, _, _)
actual_visitor(kids, k, clip_rect, bounding) ==
    IF k > Len(kids) THEN bounding
    ELSE Let([geom \in {item_geometry(kids[k])} |->
         Let([local_clip_rect \in
                  {rect_translate(clip_rect, Vec(0 - geom.x, 0 - geom.y))} |->
         Let([clipped_item_geometry \in {rect_intersection(geom, clip_rect)} |->
         Let([b1 \in {IF IsSome(clipped_item_geometry)
                      THEN rect_union(bounding, clipped_item_geometry.some)
                      ELSE bounding} |->
             actual_visitor(
                 kids, k + 1, clip_rect,
                 IF ~clips_children(kids[k])
                 THEN rect_union(b1, item_children_bounding_rect(kids[k],
                                                                 local_clip_rect))
                 ELSE b1)])])])])

item_children_bounding_rect(index, clip_rect) ==
    actual_visitor(VisitedChildren(index), 1, clip_rect, ZeroRect)

\* the clip rectangles of the calls
ClipRectChoices == {WindowRect, MkRect(2, 0, 2, WinH)}

ItemChildrenBoundingRect(index, clip_rect) ==
    /\ pc = "idle"
    /\ last' = Op("item_children_bounding_rect",
                  [index |-> index, clip_rect |-> clip_rect],
                  item_children_bounding_rect(index, clip_rect))
    /\ UNCHANGED <<children, kind, geometry, handle, cache, force_dirty,
                   force_screen_refresh, pc, dirty_region, hist>>

InitBounds == TreeInit /\ RegionIdle /\ ItemCacheIdle

NextBounds ==
    \/ \E i \in Items : \E g \in TreeGeometryChoices(i) :
           SetGeometry(i, g) /\ UNCHANGED notFrameVars
    \/ \E index \in {-1} \cup Items : \E clip_rect \in ClipRectChoices :
           ItemChildrenBoundingRect(index, clip_rect) /\ UNCHANGED notFrameVars

SpecBounds == InitBounds /\ [][NextBounds]_vars

(***************************************************************************)
(* Properties.  Under Spec and SpecCache, `last` is the operation that     *)
(* just returned and last.pre, for apply_dirty_region, the history up to   *)
(* the call.                                                               *)
(***************************************************************************)
\* where the coordinate system of item i's geometry lies on the screen
RECURSIVE ParentOrigin(_)
ParentOrigin(i) ==
    IF i = 0 THEN Vec(0, 0)
    ELSE then(origin_to_vector(geometry[i - 1]), ParentOrigin(i - 1))

\* a rectangle given in the coordinates of item i's geometry, on the screen
ScreenRect(i, r) == rect_translate(r, ParentOrigin(i))

\* the window clipped by every Clip among the ancestors of item i
RECURSIVE AncestorClip(_)
AncestorClip(i) ==
    IF i = 0 THEN WindowRect
    ELSE IF kind[i - 1] = "Clip"
         THEN unwrap_or_default(rect_intersection(AncestorClip(i - 1),
                                                  ScreenRect(i - 1, geometry[i - 1])))
         ELSE AncestorClip(i - 1)

\* the part of rectangle r of item i that shows on the screen, if any
Visible(i, r) == rect_intersection(ScreenRect(i, r), AncestorClip(i))

\* the bounding rect of region dr contains what shows of rectangle r of item i
BoundsCover(dr, i, r) ==
    IsSome(Visible(i, r)) =>
        contains_box(to_box2d(bounding_rect(dr)), to_box2d(Visible(i, r).some))

\* C1: after a complete frame whose render pass visited every item, with no property
\* change and no call of mark_dirty_region, force_screen_refresh,
\* free_graphics_resources or clear_cache since, the next apply_dirty_region returns
\* a region_to_repaint without any box.
C1_QuietFrameRepaintsNothing ==
    (last.op = "apply_dirty_region" /\ last.pre.quiet) => last.ret.count = 0

C1_Witness ==
    /\ last.op = "apply_dirty_region"
    /\ last.pre.quiet
    /\ last.ret.count = 0
    /\ kind[1] = "Clip"
    /\ \A i \in Items : IsSome(get_entry(handle[i], cache))

\* the leaf's cache entry when apply_dirty_region ran (the call leaves the cache alone)
LeafEntry == get_entry(handle[Leaf], cache)

\* only the leaf's geometry changed since the last render pass, and its entry is
\* present with a dirty tracker
LeafMoved ==
    /\ last.op = "apply_dirty_region"
    /\ last.pre.change = "leaf"
    /\ IsSome(LeafEntry)
    /\ LeafEntry.some.dirty

\* C2: when only the leaf's position changed between two frames (entry present,
\* tracker dirty), the bounding rect of the region_to_repaint that apply_dirty_region
\* returns contains the leaf's old and its new bounding rect on the screen, each cut
\* to the clips of its ancestors and to the window.
C2_MovedLeafIsRepainted ==
    LeafMoved =>
        /\ BoundsCover(last.ret, Leaf, cached_bounding_rect(LeafEntry.some.data))
        /\ BoundsCover(last.ret, Leaf, item_bounding_rect(Leaf, geometry[Leaf]))

C2_Witness ==
    /\ LeafMoved
    /\ ~last.pre.refresh
    /\ last.pre.freed = "no"
    /\ kind[1] = "Clip"
    /\ cached_bounding_rect(LeafEntry.some.data) # geometry[Leaf]
    /\ IsSome(Visible(Leaf, cached_bounding_rect(LeafEntry.some.data)))
    /\ IsSome(Visible(Leaf, geometry[Leaf]))
    /\ last.ret.count = 2

\* no box among the stored boxes of region s contains another one
NoBoxContainsAnother(s) ==
    \A i, j \in 0..(s.count - 1) :
        i # j => ~contains_box(s.rectangles[i], s.rectangles[j])

\* C3: whatever rectangle is added to a region reached by a sequence of calls, what
\* the region covered stays covered and the added rectangle is covered by the stored
\* boxes and lies inside bounding_rect(), also when the region is full and the
\* rectangle is merged into a box: so every rectangle added is covered at any time.
C3_AddedRectsStayCovered ==
    \A r \in GridRects :
        LET after == add_rect(region, r)
            bounds == to_box2d(bounding_rect(after))
        IN  /\ RegionCells(region) \subseteq RegionCells(after)
            /\ Cells(to_box2d(r)) \subseteq RegionCells(after)
            /\ \A k \in 0..(after.count - 1) : contains_box(bounds, after.rectangles[k])
            /\ ~rect_is_empty(r) => contains_box(bounds, to_box2d(r))

C3_Witness ==
    /\ rop = "merged"
    /\ region.count = MAX_COUNT
    /\ \E r \in GridRects : add_box_path(region, to_box2d(r)) = "merged"

\* C4: after any sequence of add_rect, add_box, union and intersection calls from the
\* default region, the region stores at most MAX_COUNT boxes and none of the stored
\* boxes is empty.
C4_AtMostThreeNonEmptyBoxes ==
    /\ region.count <= MAX_COUNT
    /\ DOMAIN region.rectangles = 0..(region.count - 1)
    /\ \A k \in 0..(region.count - 1) : ~box_is_empty(region.rectangles[k])

C4_Witness ==
    /\ rop = "intersection"
    /\ region.count = MAX_COUNT
    /\ \E k \in 0..(region.count - 1) : box_area(region.rectangles[k]) = 1

\* C5 as stated: after any sequence of add_rect, add_box, union and intersection
\* calls, no stored box contains another stored box.
C5_NoStoredBoxContainsAnother == NoBoxContainsAnother(region)

\* C5, amended: add_rect and add_box keep "no stored box contains another" true
\* unless the region is full and the box is merged into a stored one.
C5_AddWithoutMergeKeepsBoxesApart ==
    NoBoxContainsAnother(region) =>
        \A b \in GridBoxes :
            add_box_path(region, b) # "merged" => NoBoxContainsAnother(add_box(region, b))

C5_Witness ==
    /\ rop = "appended"
    /\ region.count = 2
    /\ NoBoxContainsAnother(region)
    /\ \E b \in GridBoxes :
           /\ add_box_path(region, b) = "appended"
           /\ add_box(region, b).count = 1

\* C6: if force_screen_refresh() was called since the last apply_dirty_region, the
\* next apply_dirty_region returns the full window rectangle as region_to_repaint,
\* whatever items are dirty and whatever rectangles were marked dirty.
C6_ForcedRefreshRepaintsWindow ==
    (last.op = "apply_dirty_region" /\ last.pre.refresh) =>
        last.ret = DirtyRegionFrom(WindowRect)

C6_Witness ==
    /\ last.op = "apply_dirty_region"
    /\ last.pre.refresh
    /\ last.pre.freed = "no"
    /\ last.pre.change = "other"
    /\ last.ret = DirtyRegionFrom(WindowRect)

\* C7: after free_graphics_resources(items) between frames, for any set of items, the
\* empty one included, the next apply_dirty_region returns the full window rectangle
\* as region_to_repaint.
C7_FreeRepaintsWindow ==
    (last.op = "apply_dirty_region" /\ last.pre.freed # "no") =>
        last.ret = DirtyRegionFrom(WindowRect)

C7_Witness ==
    /\ last.op = "apply_dirty_region"
    /\ last.pre.freed = "empty"
    /\ ~last.pre.refresh
    /\ last.pre.change = "none"
    /\ last.ret = DirtyRegionFrom(WindowRect)

\* C8: get_entry on a handle whose cache_generation differs from the cache's
\* generation returns None whatever its cache_index, and leaves the cache as it was.
C8_StaleHandleIsAbsent ==
    [][(last'.op = "get_entry" /\ last'.item.cache_generation # generation(cache))
           => (last'.ret = None /\ cache' = cache)]_vars

C8_Witness ==
    /\ last.op = "get_entry"
    /\ last.item.cache_generation # generation(cache)
    /\ last.item.cache_index \in Slots
    /\ cache.slab[last.item.cache_index] # Vacant
    /\ \E i \in Items : handle[i] = last.item /\ cache.slab[last.item.cache_index].by # i
    /\ last.ret = None

\* C9: after clear_cache, get_entry returns None for every handle that was valid
\* before the clear, until a render pass inserts an entry for the item again.
C9_ClearedHandlesAreAbsent ==
    \A i \in hist.cleared : get_entry(handle[i], cache) = None

C9_Witness ==
    /\ last.op = "render"
    /\ \E i \in hist.cleared :
           /\ handle[i].cache_index \in Slots
           /\ cache.slab[handle[i].cache_index] # Vacant

\* C10: whenever an item's handle is valid, the slot at its cache_index holds the
\* entry this item inserted: not a vacant slot, not another item's entry, also when
\* slots are reused after a release.
C10_ValidHandleOwnsItsSlot ==
    \A i \in ValidItems(handle, cache) :
        /\ handle[i].cache_index \in Slots
        /\ cache.slab[handle[i].cache_index] # Vacant
        /\ cache.slab[handle[i].cache_index].by = i

C10_Witness ==
    /\ last.op = "render"
    /\ ValidItems(handle, cache) = Items
    /\ handle[Leaf].cache_index = 0
    /\ handle[0].cache_index # 0

\* C11: release on a valid handle removes the item's entry, returns its value and
\* leaves the handle invalid, so that get_entry and another release on it return None
\* and remove nothing; release on an invalid handle returns None and changes neither
\* the cache (whoever holds the slot of its cache_index) nor the handle.
C11_ReleaseRemovesOnlyWhenValid ==
    last.op = "release" =>
        IF last.pre.handle.cache_generation = generation(last.pre.cache)
        THEN /\ last.pre.handle.cache_index \in Slots
             /\ last.pre.cache.slab[last.pre.handle.cache_index] # Vacant
             /\ last.pre.cache.slab[last.pre.handle.cache_index].by = last.item
             /\ last.ret = Some(last.pre.cache.slab[last.pre.handle.cache_index].data)
             /\ cache = [last.pre.cache EXCEPT
                            !.slab[last.pre.handle.cache_index] = Vacant]
             /\ handle[last.item].cache_generation # generation(cache)
             /\ get_entry(handle[last.item], cache) = None
             /\ release(handle[last.item], cache).ret = None
             /\ release(handle[last.item], cache).cache = cache
        ELSE /\ last.ret = None
             /\ cache = last.pre.cache
             /\ handle[last.item] = last.pre.handle

\* a second release on a released handle whose slot another item's entry took
C11_Witness ==
    /\ last.op = "release"
    /\ last.ret = None
    /\ last.pre.handle.cache_generation = 0
    /\ last.pre.handle.cache_index # 0
    /\ cache.slab[last.pre.handle.cache_index] # Vacant
    /\ cache.slab[last.pre.handle.cache_index].by # last.item

\* the entry of the item of the last ItemCache call, after the call
EntryNow == EntryOf(item_cache, last.item.component, last.item.index)

\* C12: get_or_update_cache_entry on an item whose entry has a clean tracker returns
\* the stored value, does not call update_fn and leaves the entry as it is; without
\* entry, or with a dirty tracker, it calls update_fn once, returns its result and
\* leaves it as the item's entry, with a clean tracker.
C12_UpdateFnRunsOnlyWhenNeeded ==
    last.op = "get_or_update_cache_entry" =>
        IF IsSome(last.pre.entry) /\ ~last.pre.entry.some.dirty
        THEN /\ last.pre.calls = 0
             /\ last.ret = last.pre.entry.some.data
             /\ EntryNow = last.pre.entry
        ELSE /\ last.pre.calls = 1
             /\ last.ret = properties[last.item.component][last.item.index]
             /\ IsSome(EntryNow)
             /\ EntryNow.some.data = last.ret
             /\ ~EntryNow.some.dirty

\* a dirty entry was recomputed to another value
C12_Witness ==
    /\ last.op = "get_or_update_cache_entry"
    /\ IsSome(last.pre.entry)
    /\ last.pre.entry.some.dirty
    /\ last.pre.calls = 1
    /\ last.ret # last.pre.entry.some.data

\* C13: clear_cache_if_scale_factor_changed leaves the cache without any entry and
\* is_empty() true when the scale factor was set to another value since the previous
\* call of it, and leaves the map as it is when the scale factor was not set since
\* the previous call.
C13_ScaleFactorChangeEmptiesCache ==
    last.op = "clear_cache_if_scale_factor_changed" =>
        /\ last.pre.scale_hist = "changed" =>
               (is_empty(item_cache) /\ Entries(item_cache) = {})
        /\ last.pre.scale_hist = "same" => item_cache.map = last.pre.map

C13_Witness ==
    /\ last.op = "clear_cache_if_scale_factor_changed"
    /\ last.pre.scale_hist = "changed"
    /\ \E c \in Components :
           /\ last.pre.map[c] # Vacant
           /\ \E i \in ItemIndexes(c) : last.pre.map[c].entries[i] # Vacant
    /\ is_empty(item_cache)

\* C14 as stated: is_empty() is true exactly when no item of any component has an
\* entry in the cache.
C14_IsEmptyIffNoEntry == is_empty(item_cache) <=> Entries(item_cache) = {}

\* C15 as stated: with_entry calls the callback exactly when the item has an entry
\* whose dependency tracker is not dirty, and returns None otherwise.
C15_WithEntryOnlyWhenValid ==
    last.op = "with_entry" =>
        (IsSome(last.ret) <=> (IsSome(last.pre.entry) /\ ~last.pre.entry.some.dirty))

\* every unit cell of rectangle r lies in a stored box of region dr
CoveredBy(r, dr) ==
    \A x \in r.x..(r.x + r.w - 1), y \in r.y..(r.y + r.h - 1) :
        \E k \in 0..(dr.count - 1) : contains_box(dr.rectangles[k], MkBox(x, y, x + 1, y + 1))

\* C16 as stated: every non-empty rectangle passed to mark_dirty_region before a
\* frame's create_partial_renderer, between frames or during the frame before, is
\* covered by the region_to_repaint that the frame's apply_dirty_region returns.
C16_MarkedRectsAreRepainted ==
    last.op = "apply_dirty_region" =>
        \A m \in last.pre.taken : CoveredBy(m.rect, last.ret)

\* C16, amended: the marked rectangles are covered by region_to_repaint unless
\* force_screen_refresh is set when apply_dirty_region runs (force_screen_refresh or
\* free_graphics_resources was called); then region_to_repaint is the window, and it
\* covers the part of each marked rectangle that lies in the window.
C16_MarkedRectsAreRepaintedInWindow ==
    last.op = "apply_dirty_region" =>
        \A m \in last.pre.taken :
            IF last.pre.refresh \/ last.pre.freed # "no"
            THEN /\ last.ret = DirtyRegionFrom(WindowRect)
                 /\ CoveredBy(unwrap_or_default(rect_intersection(m.rect, WindowRect)),
                              last.ret)
            ELSE CoveredBy(m.rect, last.ret)

\* two marks without refresh: one made while the frame before was in progress, the
\* other between the frames, reaching beyond the window
C16_Witness ==
    /\ last.op = "apply_dirty_region"
    /\ ~last.pre.refresh
    /\ last.pre.freed = "no"
    /\ \E m, n \in last.pre.taken :
           /\ m.in_frame
           /\ ~n.in_frame
           /\ ~contains_box(to_box2d(WindowRect), to_box2d(n.rect))
           /\ ~rect_intersects(m.rect, n.rect)
    /\ last.ret.count = 2

\* C17: the region apply_dirty_region returns does not depend on
\* dirty_region_of_existing_buffer: called with Some(r), it returns what it would
\* return from the same state with None.
C17_RepaintRegionIgnoresBuffer ==
    [][(pc = "created" /\ pc' = "applied") =>
           last'.ret = apply_dirty_region(dirty_region, force_screen_refresh,
                                          WindowRect, None).region_to_repaint]_vars

\* a call with a buffer region that shows in the renderer's dirty region and not in
\* the region returned
C17_Witness ==
    /\ last.op = "apply_dirty_region"
    /\ IsSome(last.item)
    /\ last.ret.count > 0
    /\ ~last.pre.refresh
    /\ last.pre.freed = "no"
    /\ dirty_region # intersection(last.ret, WindowRect)

\* Rect::contains_rect
contains_rect(a, b) == contains_box(to_box2d(a), to_box2d(b))

\* C18: for rectangles a and b where a contains b, add_rect(a) followed by add_rect(b)
\* leaves the same boxes, in the same order, as add_rect(a) alone.
C18_AddContainedRectChangesNothing ==
    \A a \in RectInputs : \A b \in RectInputs :
        contains_rect(a, b) =>
            add_rect(add_rect(region, a), b) = add_rect(region, a)

\* a full region built through a merge, which add_rect(a) changes and where b is a
\* non-empty rectangle that a contains and that is not a
C18_Witness ==
    /\ rop = "merged"
    /\ region.count = MAX_COUNT
    /\ \E a \in RectInputs : \E b \in RectInputs :
        /\ contains_rect(a, b)
        /\ ~rect_is_empty(b)
        /\ a # b
        /\ add_rect(region, a) # region
        /\ add_rect(add_rect(region, a), b) = add_rect(region, a)

\* C19: for every rectangle r, region.intersection(r) has no box, or its bounding
\* rectangle lies within the intersection of region.bounding_rect() with r.
C19_IntersectionBoundedByBoth ==
    \A r \in RectInputs :
        \A res \in {intersection(region, r)} :
            \A x \in {rect_intersection(bounding_rect(region), r)} :
                \/ res.count = 0
                \/ /\ IsSome(x)
                   /\ contains_rect(x.some, bounding_rect(res))

\* a region of several boxes and a rectangle that drops one of them, where what is
\* left is smaller than the bounding rectangle cut by r
C19_Witness ==
    /\ region.count >= 2
    /\ \E r \in RectInputs :
        \E res \in {intersection(region, r)} :
            \E x \in {rect_intersection(bounding_rect(region), r)} :
                /\ res.count > 0
                /\ res.count < region.count
                /\ IsSome(x)
                /\ contains_rect(x.some, bounding_rect(res))
                /\ x.some # bounding_rect(res)

\* the places of region s whose box has a non-empty intersection with rect
Intersecting(s, rect) ==
    {i \in 0..(s.count - 1) : IsSome(box_intersection(s.rectangles[i], to_box2d(rect)))}

\* how many of the places in `places` hold box b once cut by rect
CutCount(s, rect, places, b) ==
    Cardinality({i \in places : box_intersection(s.rectangles[i], to_box2d(rect)) = Some(b)})

\* C20: for every rectangle r, the boxes of region.intersection(r) are the stored
\* boxes that have a non-empty intersection with r, each cut by r, as many times as
\* they are stored, and nothing else; there is none when r meets no stored box.
C20_IntersectionKeepsExactlyTheIntersecting ==
    \A r \in RectInputs :
        \A res \in {intersection(region, r)} :
            /\ res.count = Cardinality(Intersecting(region, r))
            /\ \A j \in 0..(res.count - 1) :
                   Cardinality({k \in 0..(res.count - 1) :
                                    res.rectangles[k] = res.rectangles[j]})
                       = CutCount(region, r, Intersecting(region, r), res.rectangles[j])
            /\ (Intersecting(region, r) = {}) => res = DirtyRegionDefault

\* a region of several boxes, a rectangle that drops the first box, keeps a later
\* one and cuts a box down, and a non-empty rectangle that meets no box
C20_Witness ==
    /\ region.count >= 2
    /\ \E r \in RectInputs :
        /\ 0 \notin Intersecting(region, r)
        /\ Intersecting(region, r) # {}
        /\ \E i \in Intersecting(region, r) :
               box_intersection(region.rectangles[i], to_box2d(r)) # Some(region.rectangles[i])
        /\ intersection(region, r).count = Cardinality(Intersecting(region, r))
    /\ \E r \in RectInputs :
        /\ ~rect_is_empty(r)
        /\ Intersecting(region, r) = {}
        /\ intersection(region, r).count = 0

(***************************************************************************)
(* The visits of a compute_dirty_regions pass.  apply_dirty_region leaves  *)
(* the cache, the handles and the items alone, so after it they are what   *)
(* the pass found.                                                         *)
(***************************************************************************)
\* the visits of the pass that apply_dirty_region just ran
Visits == IF last.op = "apply_dirty_region" THEN last.visits ELSE <<>>
\* the cache entry the pass found for the item of visit v
VisitEntry(v) == get_entry(handle[v.item], cache)
\* rectangle rect under transform, cut by clipped; the empty rectangle if nothing is left
MarkedPart(rect, transform, clipped) ==
    IF rect_is_empty(rect) THEN ZeroRect
    ELSE unwrap_or_default(rect_intersection(outer_transformed_rect(transform, rect), clipped))
\* region `after` covers whatever region `before` covers
Extends(before, after) ==
    \A k \in 0..(before.count - 1) : CoveredBy(to_rect(before.rectangles[k]), after)

\* C21: when compute_dirty_regions visits an item whose entry is present with a dirty
\* tracker, the dirty region after the visit covers what it covered before, the cached
\* bounding rect under old_transform_to_screen cut by `clipped` and the item's current
\* bounding rect under transform_to_screen cut by `clipped`; so does the region
\* returned.
C21_DirtyItemMarksOldAndNew ==
    \A k \in DOMAIN Visits :
        \A v \in {Visits[k]} :
            (IsSome(VisitEntry(v)) /\ VisitEntry(v).some.dirty) =>
                \A old \in {MarkedPart(cached_bounding_rect(VisitEntry(v).some.data),
                                       v.state.old_transform_to_screen, v.state.clipped)} :
                    \A new \in {MarkedPart(item_bounding_rect(v.item, geometry[v.item]),
                                           v.state.transform_to_screen, v.state.clipped)} :
                        /\ Extends(v.before, v.after)
                        /\ CoveredBy(old, v.after)
                        /\ CoveredBy(new, v.after)
                        /\ CoveredBy(old, last.ret)
                        /\ CoveredBy(new, last.ret)

\* a dirty item below an item that moved, visited while the region has a box already:
\* its old and its new rectangle both show, apart from each other, and the new one
\* would lie elsewhere under the old transform
C21_Witness ==
    /\ last.op = "apply_dirty_region"
    /\ ~last.pre.refresh
    /\ last.pre.freed = "no"
    /\ \E k \in DOMAIN Visits :
        \E v \in {Visits[k]} :
            /\ IsSome(VisitEntry(v))
            /\ VisitEntry(v).some.dirty
            /\ v.before.count > 0
            /\ v.state.transform_to_screen # v.state.old_transform_to_screen
            /\ \E old \in {MarkedPart(cached_bounding_rect(VisitEntry(v).some.data),
                                      v.state.old_transform_to_screen, v.state.clipped)} :
                \E new \in {MarkedPart(item_bounding_rect(v.item, geometry[v.item]),
                                       v.state.transform_to_screen, v.state.clipped)} :
                    /\ ~rect_is_empty(old)
                    /\ ~rect_is_empty(new)
                    /\ ~rect_intersects(old, new)
                    /\ new # MarkedPart(item_bounding_rect(v.item, geometry[v.item]),
                                        v.state.old_transform_to_screen, v.state.clipped)

\* the entry of visit v's item is present with a clean tracker
VisitClean(v) == IsSome(VisitEntry(v)) /\ ~VisitEntry(v).some.dirty
\* visit v is made with must_refresh_children set or below an item that moved
VisitMoved(v) ==
    \/ v.state.must_refresh_children
    \/ v.state.transform_to_screen # v.state.old_transform_to_screen

\* C22: when compute_dirty_regions visits an item whose entry is present with a clean
\* tracker, then if must_refresh_children is set or transform_to_screen differs from
\* old_transform_to_screen, the dirty region after the visit (and the region returned)
\* covers the cached bounding rect under the old and under the new transform, each cut
\* by `clipped`; otherwise the visit leaves the dirty region as it is.
C22_CleanItemMarksOnlyWhenMoved ==
    \A k \in DOMAIN Visits :
        \A v \in {Visits[k]} :
            VisitClean(v) =>
                IF VisitMoved(v)
                THEN \A r \in {cached_bounding_rect(VisitEntry(v).some.data)} :
                        \A t \in {v.state.old_transform_to_screen,
                                  v.state.transform_to_screen} :
                            /\ Extends(v.before, v.after)
                            /\ CoveredBy(MarkedPart(r, t, v.state.clipped), v.after)
                            /\ CoveredBy(MarkedPart(r, t, v.state.clipped), last.ret)
                ELSE v.after = v.before

\* one pass with a clean item that adds nothing and a clean item below an item that
\* moved, whose rectangle shows at its old and at its new place
C22_Witness ==
    /\ last.op = "apply_dirty_region"
    /\ ~last.pre.refresh
    /\ last.pre.freed = "no"
    /\ \E k \in DOMAIN Visits :
           VisitClean(Visits[k]) /\ ~VisitMoved(Visits[k])
    /\ \E k \in DOMAIN Visits :
        \E v \in {Visits[k]} :
            /\ VisitClean(v)
            /\ ~v.state.must_refresh_children
            /\ v.state.transform_to_screen # v.state.old_transform_to_screen
            /\ \A t \in {v.state.old_transform_to_screen, v.state.transform_to_screen} :
                   ~rect_is_empty(MarkedPart(cached_bounding_rect(VisitEntry(v).some.data),
                                             t, v.state.clipped))

\* C23: apply_dirty_region leaves the cache and every handle as they are, and when its
\* compute_dirty_regions pass visits an item without a valid entry, the dirty region
\* after the visit is the one before it with one rectangle added, the item's current
\* bounding rect under transform_to_screen cut by `clipped`, or unchanged if nothing is
\* left of that rectangle.
C23_AbsentItemMarksNewOnlyAndStaysAbsent ==
    [][(pc = "created" /\ pc' = "applied") =>
           /\ cache' = cache
           /\ handle' = handle
           /\ \A k \in DOMAIN last'.visits :
               \A v \in {last'.visits[k]} :
                   ~IsSome(get_entry(handle[v.item], cache)) =>
                       /\ ~IsSome(get_entry(handle'[v.item], cache'))
                       /\ \A new \in {MarkedPart(item_bounding_rect(v.item, geometry[v.item]),
                                                 v.state.transform_to_screen,
                                                 v.state.clipped)} :
                              /\ CoveredBy(new, v.after)
                              /\ v.after = IF rect_is_empty(new) THEN v.before
                                           ELSE add_rect(v.before, new)]_vars

\* an item whose entry was released, below an item that has an entry and moved: its
\* rectangle shows at its new place, which the region did not cover before
C23_Witness ==
    /\ last.op = "apply_dirty_region"
    /\ \E k \in DOMAIN Visits :
        \E v \in {Visits[k]} :
            /\ ~IsSome(VisitEntry(v))
            /\ handle[v.item].cache_generation = 0
            /\ v.state.transform_to_screen # v.state.old_transform_to_screen
            /\ v.after # v.before

\* the items below item i in the tree
RECURSIVE Descendants(_)
Descendants(i) ==
    {children[i][k] : k \in DOMAIN children[i]}
        \cup UNION {Descendants(children[i][k]) : k \in DOMAIN children[i]}

\* the item of visit v is a Clip or an Opacity whose entry is present with a dirty tracker
VisitDirtyContainer(v) ==
    /\ kind[v.item] \in {"Clip", "Opacity"}
    /\ IsSome(VisitEntry(v))
    /\ VisitEntry(v).some.dirty

\* C24: when the entry of a Clip or Opacity item is dirty, every item below it, at any
\* depth, is visited with must_refresh_children set, and each of them that has a clean
\* entry has its cached bounding rect, under transform_to_screen and cut by `clipped`,
\* covered by the dirty region after its visit and by the region returned.
C24_DirtyContainerRefreshesDescendants ==
    \A k \in DOMAIN Visits :
        VisitDirtyContainer(Visits[k]) =>
            \A j \in DOMAIN Visits :
                \A u \in {Visits[j]} :
                    u.item \in Descendants(Visits[k].item) =>
                        /\ u.state.must_refresh_children
                        /\ VisitClean(u) =>
                               \A part \in {MarkedPart(
                                               cached_bounding_rect(VisitEntry(u).some.data),
                                               u.state.transform_to_screen,
                                               u.state.clipped)} :
                                   /\ CoveredBy(part, u.after)
                                   /\ CoveredBy(part, last.ret)

\* an item with a clean entry below a dirty Clip or Opacity, where nothing moved: the
\* visit adds the item's rectangle, which the region did not cover
C24_Witness ==
    /\ last.op = "apply_dirty_region"
    /\ ~last.pre.refresh
    /\ last.pre.freed = "no"
    /\ \E k \in DOMAIN Visits :
        /\ VisitDirtyContainer(Visits[k])
        /\ \E j \in DOMAIN Visits :
            \E u \in {Visits[j]} :
                /\ u.item \in Descendants(Visits[k].item)
                /\ VisitClean(u)
                /\ u.state.transform_to_screen = u.state.old_transform_to_screen
                /\ u.after # u.before

\* the items above item i in the tree
Ancestors(i) == {a \in Items : i \in Descendants(a)}
\* the visit the pass made of item i
VisitOf(i) == Visits[CHOOSE k \in DOMAIN Visits : Visits[k].item = i]
\* the unit cells of a rectangle
RectCells(r) == (r.x..(r.x + r.w - 1)) \X (r.y..(r.y + r.h - 1))
\* the geometry of item a on the screen, as the pass sees it
ScreenGeometry(a) ==
    outer_transformed_rect(VisitOf(a).state.transform_to_screen, geometry[a])
\* the Clip items above item i
ClipsAbove(i) == {a \in Ancestors(i) : kind[a] = "Clip"}
\* the window cut by the screen geometry of every Clip above item i
ClipChain(i) ==
    {c \in RectCells(WindowRect) : \A a \in ClipsAbove(i) : c \in RectCells(ScreenGeometry(a))}

\* C25 as stated: every visit of compute_dirty_regions is made with `clipped` equal to
\* the window rectangle cut by the screen geometry of every Clip above the item,
\* whatever the state of the Clip's cache entry.
C25_ClippedIsTheClipChain ==
    \A k \in DOMAIN Visits :
        RectCells(Visits[k].state.clipped) = ClipChain(Visits[k].item)

\* what the visit of Clip a leaves of the window for the items below it
ClipExtent(a) ==
    IF ~IsSome(VisitEntry(VisitOf(a))) THEN RectCells(ScreenGeometry(a))
    ELSE IF VisitEntry(VisitOf(a)).some.dirty THEN RectCells(WindowRect)
    ELSE RectCells(rect_union(
             outer_transformed_rect(VisitOf(a).state.transform_to_screen,
                                    VisitEntry(VisitOf(a)).some.data.geometry),
             outer_transformed_rect(VisitOf(a).state.old_transform_to_screen,
                                    VisitEntry(VisitOf(a)).some.data.geometry)))

\* C25, amended: every visit is made with `clipped` equal to the window rectangle cut,
\* for every Clip above the item whose entry is absent, by the Clip's geometry under
\* transform_to_screen, and for every Clip above it whose entry is clean, by the union
\* of the Clip's geometry under transform_to_screen and under old_transform_to_screen;
\* a Clip whose entry is dirty does not narrow it.  So `clipped` lies in the window and
\* contains the window cut by the screen geometry of every Clip above the item.
C25_ClippedFollowsTheClipEntries ==
    \A k \in DOMAIN Visits :
        \A v \in {Visits[k]} :
            /\ RectCells(v.state.clipped) =
                   {c \in RectCells(WindowRect) :
                       \A a \in ClipsAbove(v.item) : c \in ClipExtent(a)}
            /\ ClipChain(v.item) \subseteq RectCells(v.state.clipped)
            /\ RectCells(v.state.clipped) \subseteq RectCells(WindowRect)

\* an item below a Clip with a clean entry, below an item that moved: `clipped` is more
\* than the Clip's screen rectangle and less than the window
C25_Witness ==
    /\ last.op = "apply_dirty_region"
    /\ \E k \in DOMAIN Visits :
        \E v \in {Visits[k]} :
            /\ \E a \in ClipsAbove(v.item) :
                   /\ VisitClean(VisitOf(a))
                   /\ VisitOf(a).state.transform_to_screen
                          # VisitOf(a).state.old_transform_to_screen
            /\ RectCells(v.state.clipped) # ClipChain(v.item)
            /\ RectCells(v.state.clipped) # RectCells(WindowRect)
            /\ ClipChain(v.item) # {}

\* some unit cell of rectangle r lies in a stored box of region dr
Touches(r, dr) ==
    \E c \in RectCells(r) : \E k \in 0..(dr.count - 1) :
        contains_box(dr.rectangles[k], MkBox(c[1], c[2], c[1] + 1, c[2] + 1))

\* C26: in a render pass, filter_item leaves for the item an entry that holds the
\* item's current bounding rect, and returns draw = true exactly when the current clip
\* and that bounding rect have a non-empty intersection which, translated by the
\* current translation, has a point in a stored box of the renderer's dirty region.
C26_FilterDrawsWhatTouchesTheRegion ==
    [][(pc = "applied" /\ pc' = "idle") =>
           \A k \in DOMAIN last'.ret.filtered :
               \A f \in {last'.ret.filtered[k]} :
                   /\ cached_bounding_rect(f.left.entry.some.data)
                          = item_bounding_rect(f.item, geometry[f.item])
                   /\ \A x \in {rect_intersection(
                                   f.clip, item_bounding_rect(f.item, geometry[f.item]))} :
                          f.draw <=> /\ IsSome(x)
                                     /\ Touches(rect_translate(x.some, f.tr),
                                                dirty_region)]_vars

\* a render pass in which one item under a translation is drawn and another item
\* shows in the clip and is not drawn, the dirty region lying elsewhere
C26_Witness ==
    /\ last.op = "render"
    /\ \E k \in DOMAIN last.ret.filtered :
        \E f \in {last.ret.filtered[k]} :
            /\ f.draw
            /\ f.tr # Vec(0, 0)
    /\ \E k \in DOMAIN last.ret.filtered :
        \E f \in {last.ret.filtered[k]} :
            /\ ~f.draw
            /\ IsSome(rect_intersection(f.clip, geometry[f.item]))

\* the items whose render operation reached the wrapped renderer in the last pass
Drawn == {last.ret.drawn[k] : k \in DOMAIN last.ret.drawn}

\* C27: in a render pass an item's render operation is invoked exactly when filter_item
\* returned do_draw = true, or the item clips its children, or it is a BoxShadow; no
\* other item reaches the wrapped renderer.
C27_RenderedIffDrawnOrClipOrShadow ==
    last.op = "render" =>
        /\ \A k \in DOMAIN last.ret.results :
               \A r \in {last.ret.results[k]} :
                   /\ r.do_draw = last.ret.filtered[k].draw
                   /\ r.item = last.ret.filtered[k].item
                   /\ r.item \in Drawn <=> \/ r.do_draw
                                           \/ clips_children(r.item)
                                           \/ kind[r.item] = "BoxShadow"
        /\ Drawn \subseteq {last.ret.results[k].item : k \in DOMAIN last.ret.results}

\* a pass that renders a BoxShadow the filter rejected and leaves out a rejected
\* Rectangle
C27_Witness ==
    /\ last.op = "render"
    /\ \E k \in DOMAIN last.ret.results :
        \E r \in {last.ret.results[k]} :
            /\ ~r.do_draw
            /\ kind[r.item] = "BoxShadow"
            /\ r.item \in Drawn
    /\ \E k \in DOMAIN last.ret.results :
        \E r \in {last.ret.results[k]} :
            /\ ~r.do_draw
            /\ kind[r.item] = "Rectangle"
            /\ r.item \notin Drawn

\* the rendering result of item i in the last pass, None when it was not visited
ResultOf(i) ==
    IF \E k \in DOMAIN last.ret.results : last.ret.results[k].item = i
    THEN Some(last.ret.results[CHOOSE k \in DOMAIN last.ret.results :
                                   last.ret.results[k].item = i].result)
    ELSE None

\* the items of sequence kids
ItemsOf(kids) == {kids[k] : k \in DOMAIN kids}

\* C28: in a render pass an item below the root is visited exactly when its parent
\* was visited with the result ContinueRenderingChildren; an item the filter skipped
\* has that result, so its children are visited; below an item whose result is
\* ContinueRenderingWithoutChildren nothing is visited; siblings are visited whatever
\* the results of the ones before them, and no item is visited twice.
C28_ChildrenVisitedIffContinue ==
    last.op = "render" =>
        /\ ItemsOf(RootChildren) \subseteq last.ret.visited
        /\ \A p \in Items : \A c \in ItemsOf(Children(p)) :
               c \in last.ret.visited <=>
                   /\ p \in last.ret.visited
                   /\ ResultOf(p) = Some("ContinueRenderingChildren")
        /\ \A k \in DOMAIN last.ret.results :
               last.ret.results[k].item \notin Drawn =>
                   last.ret.results[k].result = "ContinueRenderingChildren"
        /\ \A p \in Items :
               ResultOf(p) = Some("ContinueRenderingWithoutChildren") =>
                   Descendants(p) \cap last.ret.visited = {}
        /\ last.ret.visited = {last.ret.filtered[k].item : k \in DOMAIN last.ret.filtered}
        /\ Len(last.ret.filtered) = Cardinality(last.ret.visited)
        /\ Len(last.ret.results) = Len(last.ret.filtered)

\* a pass in which an item with a child ends with ContinueRenderingWithoutChildren
\* and the child is not visited, while the child of its parent was
C28_Witness ==
    /\ last.op = "render"
    /\ \E p \in Items :
        /\ ResultOf(p) = Some("ContinueRenderingWithoutChildren")
        /\ Children(p) # <<>>
        /\ ItemsOf(Children(p)) \cap last.ret.visited = {}
    /\ \E p \in Items :
        /\ p \notin Drawn
        /\ Children(p) # <<>>
        /\ ItemsOf(Children(p)) \subseteq last.ret.visited

\* C29: in a render pass, filter_item finds no entry through a handle whose generation
\* is not the cache's (default, released, or older than clear_cache), and then leaves
\* the handle with the cache's generation and the index of a fresh entry of the item;
\* whatever it found (nothing, a clean entry, a dirty one), it leaves the item's
\* handle valid and the entry's tracker clean; after the pass the visited items
\* have valid handles to entries of their own.
C29_FilterLeavesValidCleanEntry ==
    [][(pc = "applied" /\ pc' = "idle") =>
           /\ \A k \in DOMAIN last'.ret.filtered :
                  \A f \in {last'.ret.filtered[k]} :
                      /\ f.left.handle.cache_generation = f.left.generation
                      /\ IsSome(f.left.entry)
                      /\ ~f.left.entry.some.dirty
                      /\ f.left.entry.some.by = f.item
                      /\ f.found.handle.cache_generation # f.left.generation =>
                             /\ f.found.entry = None
                             /\ f.left.entry.some =
                                    CachedGraphicsDataNew(
                                        f.item, f.left.entry.some.data, {"geometry"})
                      /\ IsSome(f.found.entry) =>
                             /\ f.left.handle = f.found.handle
                             /\ ~f.found.entry.some.dirty => f.left.entry = f.found.entry
           /\ \A i \in last'.ret.visited :
                  /\ IsSome(get_entry(handle'[i], cache'))
                  /\ get_entry(handle'[i], cache').some.by = i
                  /\ \A j \in last'.ret.visited :
                         handle'[i].cache_index = handle'[j].cache_index => i = j]_vars

\* a render pass that reaches one item whose handle was released and another whose
\* handle is older than the last clear_cache
C29_Witness ==
    /\ last.op = "render"
    /\ \E k \in DOMAIN last.ret.filtered :
        \E f \in {last.ret.filtered[k]} :
            /\ f.found.handle.cache_generation = 0
            /\ f.found.handle.cache_index # 0
            /\ get_entry(handle[f.item], cache) # None
    /\ \E k \in DOMAIN last.ret.filtered :
        \E f \in {last.ret.filtered[k]} :
            /\ f.found.handle.cache_generation \notin {0, f.left.generation}
            /\ get_entry(handle[f.item], cache) # None

\* the unit cell c lies in a stored box of region dr
CellIn(c, dr) ==
    \E k \in 0..(dr.count - 1) :
        contains_box(dr.rectangles[k], MkBox(c[1], c[2], c[1] + 1, c[2] + 1))

\* C30: after apply_dirty_region the renderer's dirty region covers every cell of
\* the window that lies in the returned region_to_repaint or in the region of the
\* existing buffer.
C30_EffectiveRegionCoversRepaintAndBuffer ==
    last.op = "apply_dirty_region" =>
        \A c \in RectCells(WindowRect) :
            (\/ CellIn(c, last.ret)
             \/ IsSome(last.item) /\ CellIn(c, last.item.some)) => CellIn(c, dirty_region)

\* apply_dirty_region with a buffer whose region has a window cell that
\* region_to_repaint lacks, region_to_repaint having a window cell the buffer lacks
C30_Witness ==
    /\ last.op = "apply_dirty_region"
    /\ IsSome(last.item)
    /\ \E c \in RectCells(WindowRect) :
        /\ CellIn(c, last.item.some)
        /\ ~CellIn(c, last.ret)
        /\ CellIn(c, dirty_region)
    /\ \E c \in RectCells(WindowRect) :
        /\ ~CellIn(c, last.item.some)
        /\ CellIn(c, last.ret)
    /\ \E c \in RectCells(WindowRect) : ~CellIn(c, dirty_region)

\* C31: create_partial_renderer leaves force_dirty empty, having handed it to the
\* renderer, and apply_dirty_region leaves force_screen_refresh false; the frame
\* after a frame that consumed such a request, with no request and no property
\* change in between, returns an empty region_to_repaint.
C31_ForcedRequestsAreConsumed ==
    [][/\ (pc = "idle" /\ pc' = "created") =>
              /\ force_dirty'.count = 0
              /\ dirty_region' = force_dirty
       /\ (pc = "created" /\ pc' = "applied") =>
              /\ force_screen_refresh' = FALSE
              /\ hist.forced # "no" => last'.ret.count = 0]_vars

\* apply_dirty_region of a frame that follows, with nothing in between, a frame that
\* consumed both marked rectangles and a screen refresh
C31_Witness ==
    /\ last.op = "apply_dirty_region"
    /\ last.pre.forced = "both"
    /\ last.ret.count = 0
    /\ force_dirty.count = 0
    /\ ~force_screen_refresh

\* the entry of item i now
EntryHere(i) == get_entry(handle[i], cache)

\* C32: a draw or visit operation of the PartialRenderer reaches the
\* wrapped renderer exactly once and leaves the item with a valid handle to an
\* entry with a clean tracker that holds the geometry computed during the call,
\* whether the entry was absent or present.
C32_DrawLeavesComputedGeometry ==
    last.op = "draw" =>
        /\ last.ret.drawn = <<last.item>>
        /\ handle[last.item].cache_generation = generation(cache)
        /\ IsSome(EntryHere(last.item))
        /\ ~EntryHere(last.item).some.dirty
        /\ EntryHere(last.item).some.data = cached_new(last.item)

\* the calls of the last render pass
Events == last.ret.events

\* the depth of the state stack after the first k calls
RECURSIVE DepthAfter(_)
DepthAfter(k) ==
    IF k = 0 THEN 0
    ELSE DepthAfter(k - 1) + (IF Events[k].ev = "save_state" THEN 1
                              ELSE IF Events[k].ev = "restore_state" THEN 0 - 1
                              ELSE 0)

\* the restore_state that undoes the save_state at position k
ClosingOf(k) ==
    CHOOSE m \in (k + 1)..Len(Events) :
        /\ DepthAfter(m) = DepthAfter(k) - 1
        /\ \A n \in (k + 1)..(m - 1) : DepthAfter(n) >= DepthAfter(k)

\* the items with a call between positions k and m
ItemsBetween(k, m) == {Events[n].item : n \in (k + 1)..(m - 1)} \ {-1}

\* C33: a render pass leaves the renderer's state stack, clip and translation as it
\* found them; its calls are save_state, translate, the items, restore_state, and for
\* each visited item one save_state, filter_item, translate, the rendering operation
\* if any, the calls of the visited descendants and nothing else, and one
\* restore_state, also for an item the filter skipped or one whose result is
\* ContinueRenderingWithoutChildren.
C33_SaveRestoreNested ==
    last.op = "render" =>
        /\ last.ret.left = [stack |-> <<>>, clip |-> WindowRect, tr |-> Vec(0, 0)]
        /\ DepthAfter(Len(Events)) = 0
        /\ \A k \in 1..(Len(Events) - 1) : DepthAfter(k) >= 1
        /\ Events[1].ev = "save_state" /\ Events[2].ev = "translate"
        /\ Events[Len(Events)].ev = "restore_state"
        /\ Cardinality({k \in DOMAIN Events : Events[k].ev = "save_state"})
               = 1 + Cardinality(last.ret.visited)
        /\ \A i \in last.ret.visited :
               \E k \in 3..(Len(Events) - 3) :
                   /\ Events[k].ev = "save_state"
                   /\ Events[k + 1] = Event("filter_item", i)
                   /\ Events[k + 2].ev = "translate"
                   /\ (i \in Drawn) <=> (Events[k + 3] = Event("render", i))
                   /\ ItemsBetween(k + 3, ClosingOf(k))
                          = (Descendants(i) \cap last.ret.visited)
                   /\ \A n \in (k + 3)..(ClosingOf(k) - 1) :
                          Events[n].ev = "translate" => Events[n - 1].ev = "filter_item"

\* a pass with an item the filter skipped and that was not rendered, and an item with
\* a child whose result is ContinueRenderingWithoutChildren
C33_Witness ==
    /\ last.op = "render"
    /\ \E i \in last.ret.visited : i \notin Drawn /\ Children(i) # <<>>
    /\ \E i \in Items : /\ ResultOf(i) = Some("ContinueRenderingWithoutChildren")
                        /\ Children(i) # <<>>
    /\ last.ret.left.stack = <<>>

\* C34: get_or_update_cache_entry called for another item from inside update_fn does
\* not panic and leaves the map unborrowed; when update_fn ran (the outer item's
\* entry was absent, or present with a dirty tracker), both items have afterwards an
\* entry with a clean tracker holding the value their own update_fn returns, and the
\* other entries are as before; when the outer entry was clean nothing changes.
C34_NestedCallForOtherItemCompletes ==
    last.op = "get_or_update_cache_entry_nested" =>
        /\ ~last.ret.panic
        /\ ~last.ret.borrowed
        /\ \A o \in {last.item[1]} : \A n \in {last.item[2]} :
               IF last.pre.entry = None \/ last.pre.entry.some.dirty
               THEN /\ \A e \in {o, n} :
                           /\ IsSome(EntryOf(item_cache, e.component, e.index))
                           /\ EntryOf(item_cache, e.component, e.index).some
                                  = CachedGraphicsDataNew(
                                        e.index, properties[e.component][e.index],
                                        {"property"})
                    /\ \A e \in ItemRcs \ {o, n} :
                           EntryOf(item_cache, e.component, e.index)
                               = IF last.pre.map[e.component] = Vacant THEN None
                                 ELSE IF last.pre.map[e.component].entries[e.index] = Vacant
                                 THEN None
                                 ELSE Some(last.pre.map[e.component].entries[e.index])
               ELSE /\ EntryOf(item_cache, o.component, o.index) = last.pre.entry
                    /\ EntryOf(item_cache, n.component, n.index) = last.pre.inner

\* a nested call whose outer item had an entry with a dirty tracker and whose inner
\* item, of another component that had no sub-map, had none
C34_Witness ==
    /\ last.op = "get_or_update_cache_entry_nested"
    /\ IsSome(last.pre.entry)
    /\ last.pre.entry.some.dirty
    /\ last.pre.inner = None
    /\ last.item[1].component # last.item[2].component
    /\ last.pre.map[last.item[2].component] = Vacant
    /\ IsSome(EntryOf(item_cache, last.item[2].component, last.item[2].index))
    /\ ~last.ret.panic

\* the descendants of `index` that are reached without passing through an item that
\* clips its children, each with the origin of its parent in the coordinate system
\* of `index`
RECURSIVE ReachedBelow(_, _)
ReachedBelow(index, origin) ==
    UNION {{[item |-> c, origin |-> origin]}
               \cup (IF clips_children(c) THEN {}
                     ELSE ReachedBelow(c, then(origin_to_vector(geometry[c]), origin)))
           : c \in ItemsOf(VisitedChildren(index))}

\* C35: item_children_bounding_rect(index, clip_rect) returns a rectangle that
\* contains, in the coordinate system of `index`, what clip_rect shows of the
\* geometry of every descendant reached without passing through an item that clips
\* its children, and that lies within clip_rect; it is empty when clip_rect shows
\* none of them, whatever the item's own rectangle.
C35_ChildrenBoundingRectCoversDescendants ==
    last.op = "item_children_bounding_rect" =>
        /\ \A d \in ReachedBelow(last.item.index, Vec(0, 0)) :
               (RectCells(rect_translate(geometry[d.item], d.origin))
                    \cap RectCells(last.item.clip_rect)) \subseteq RectCells(last.ret)
        /\ RectCells(last.ret) \subseteq RectCells(last.item.clip_rect)
        /\ (\A d \in ReachedBelow(last.item.index, Vec(0, 0)) :
                RectCells(rect_translate(geometry[d.item], d.origin))
                    \cap RectCells(last.item.clip_rect) = {})
               => RectCells(last.ret) = {}

=============================================================================
